---- MODULE Spec2Model ----
(***************************************************************************)
(* The sandboxed markdown file operations of                              *)
(* lesson-07-capstone-chatbot/file_operations.py: validate_path,          *)
(* ensure_markdown_extension and the 13 operations of AVAILABLE_FUNCTIONS, *)
(* over a POSIX file system without symbolic links.                       *)
(*                                                                         *)
(* A Python str is a sequence of one-character strings ("LF" and "CR"     *)
(* stand for the line feed and the carriage return).  A pathlib path is   *)
(* the sequence of its segments, each a str; the file system maps the     *)
(* absolute paths that exist to their entries.                            *)
(***************************************************************************)
EXTENDS Integers, Sequences, FiniteSets, TLC

VARIABLES fs, last, calls

vars == <<fs, last, calls>>

\* ------------------------------------------------------------------ bounds
\* Longest input of the validate_path specification, in segments.
MaxSegs == 3
\* Most entries the operations may add to the initial file system.
MaxNew == 2
\* Longest file content, in characters.
MaxContent == 3

\* ----------------------------------------------------------------- strings
\* The value None, passed where a str is expected.
NONE == <<"<None>">>

SLASH == <<"/">>
DOT == <<".">>
DOTDOT == <<".", ".">>
MD == <<".", "m", "d">>

RECURSIVE JoinWith(_, _)
\* sep.join(ss)
JoinWith(ss, sep) ==
    IF ss = <<>> THEN <<>>
    ELSE IF Len(ss) = 1 THEN ss[1]
    ELSE ss[1] \o sep \o JoinWith(Tail(ss), sep)

\* s.startswith(prefix)
startswith(s, prefix) ==
    /\ Len(prefix) <= Len(s)
    /\ SubSeq(s, 1, Len(prefix)) = prefix

\* s.endswith(suffix)
endswith(s, suffix) ==
    /\ Len(suffix) <= Len(s)
    /\ SubSeq(s, Len(s) - Len(suffix) + 1, Len(s)) = suffix

RECURSIVE Split(_, _)
\* s.split(sep) for a one-character sep: the pieces between the separators
Split(s, sep) ==
    IF \A i \in 1..Len(s) : s[i] # sep THEN <<s>>
    ELSE LET i == CHOOSE k \in 1..Len(s) :
                      s[k] = sep /\ \A j \in 1..(k - 1) : s[j] # sep
         IN <<SubSeq(s, 1, i - 1)>> \o Split(SubSeq(s, i + 1, Len(s)), sep)

\* ------------------------------------------------------------------- paths
\* PurePosixPath parsing: empty and "." segments are dropped, ".." is kept.
Parts(s) == SelectSeq(Split(s, "/"), LAMBDA seg : seg # <<>> /\ seg # DOT)

IsAbsolute(s) == s # <<>> /\ s[1] = "/"

\* base / s: an absolute right operand replaces the left one.
JoinPath(base, s) == IF IsAbsolute(s) THEN Parts(s) ELSE base \o Parts(s)

RECURSIVE Collapse(_, _)
\* os.path.realpath without symbolic links: ".." drops the segment before it
\* and stays at "/" when there is none.
Collapse(done, rest) ==
    IF rest = <<>> THEN done
    ELSE IF Head(rest) = DOTDOT
         THEN Collapse(IF done = <<>> THEN <<>>
                       ELSE SubSeq(done, 1, Len(done) - 1), Tail(rest))
         ELSE Collapse(Append(done, Head(rest)), Tail(rest))

\* Path.resolve() of an absolute path
resolve(p) == Collapse(<<>>, p)

\* str(path) of an absolute path
str(p) == SLASH \o JoinWith(p, SLASH)

\* The directory holding file_operations.py, and the sandbox root beside it.
ModuleDir == << <<"a", "p", "p">> >>
DOCUMENTS_ROOT == ModuleDir \o << <<"d", "o", "c", "s">> >>

\* p is the root or below it, compared segment by segment.
Inside(p) ==
    /\ Len(p) >= Len(DOCUMENTS_ROOT)
    /\ SubSeq(p, 1, Len(DOCUMENTS_ROOT)) = DOCUMENTS_ROOT

\* validate_path refusing every ".." segment: a mutant.
validate_path_no_dotdot(file_path) ==
    IF file_path = NONE THEN [ok |-> FALSE, path |-> <<>>]
    ELSE LET full_path == resolve(JoinPath(DOCUMENTS_ROOT, file_path))
         IN IF /\ startswith(str(full_path), str(resolve(DOCUMENTS_ROOT)))
               /\ \A i \in 1..Len(Parts(file_path)) : Parts(file_path)[i] # DOTDOT
            THEN [ok |-> TRUE, path |-> full_path]
            ELSE [ok |-> FALSE, path |-> <<>>]

\* validate_path: ok with the resolved path, or not ok for SecurityError.
\* None / a non-str raises TypeError in the join, which the except clause
\* turns into SecurityError.
validate_path(file_path) ==
    IF file_path = NONE THEN [ok |-> FALSE, path |-> <<>>]
    ELSE LET full_path == resolve(JoinPath(DOCUMENTS_ROOT, file_path))
         IN IF ~startswith(str(full_path), str(resolve(DOCUMENTS_ROOT)))
            THEN [ok |-> FALSE, path |-> <<>>]
            ELSE [ok |-> TRUE, path |-> full_path]

\* str(file_path) inside the f-strings of the messages
format(file_path) ==
    IF file_path = NONE THEN <<"N", "o", "n", "e">> ELSE file_path

\* What ends the try block of validate_path: no exception, the TypeError
\* of the join with a value that is no str, or the SecurityError of the
\* prefix test; with the message of the exception, its fixed parts kept
\* as one piece each.
validate_try(file_path) ==
    IF file_path = NONE
    THEN [exc |-> "TypeError",
          message |-> <<"unsupported operand type(s) for /">>]
    ELSE IF ~validate_path(file_path).ok
    THEN [exc |-> "SecurityError",
          message |-> <<"Access denied: Path '">> \o format(file_path)
                      \o <<"' is outside documents folder">>]
    ELSE [exc |-> "none", message |-> <<>>]

\* What leaves validate_path: the except clause raises SecurityError for
\* every exception of the try block, its own SecurityError included.
validate_except(file_path) ==
    LET e == validate_try(file_path)
    IN IF e.exc = "none" THEN e
       ELSE [exc |-> "SecurityError",
             message |-> <<"Invalid path '">> \o format(file_path)
                         \o <<"': ">> \o e.message]

\* A name handed on as it was given: a mutant.
keep_extension(filename) == filename

\* ensure_markdown_extension
ensure_markdown_extension(filename) ==
    IF ~endswith(filename, MD) THEN filename \o MD ELSE filename

\* ------------------------------------------------------------- file system
DirEntry == [kind |-> "dir", content |-> <<>>]
FileEntry(bytes) == [kind |-> "file", content |-> bytes]

\* The world outside the operations' control: "/", the module directory with
\* a file beside the sandbox, and the empty sandbox root.
BaseFS ==
    (<<>> :> DirEntry) @@ (ModuleDir :> DirEntry) @@ (DOCUMENTS_ROOT :> DirEntry)
    @@ (Append(ModuleDir, <<"s", ".", "m", "d">>) :> FileEntry(<<"s">>))

\* The same with a sibling directory whose name continues the root's name.
Sibling == Append(ModuleDir, <<"d", "o", "c", "s", "E">>)
SiblingFS ==
    BaseFS @@ (Sibling :> DirEntry)
    @@ (Append(Sibling, <<"x", ".", "m", "d">>) :> FileEntry(<<"e">>))

\* Path.parent ("/" is its own parent) and Path.name
Parent(p) == IF p = <<>> THEN <<>> ELSE SubSeq(p, 1, Len(p) - 1)
Name(p) == IF p = <<>> THEN <<>> ELSE p[Len(p)]

\* Path.stem: the name without its last suffix; a leading or trailing dot
\* starts no suffix.
Stem(name) ==
    LET dots == {i \in 1..Len(name) : name[i] = "."}
        i == IF dots = {} THEN 0 ELSE CHOOSE k \in dots : \A j \in dots : j <= k
    IN IF 1 < i /\ i < Len(name) THEN SubSeq(name, 1, i - 1) ELSE name

IsPrefix(p, q) == Len(p) <= Len(q) /\ SubSeq(q, 1, Len(p)) = p

\* Path.exists() that finds nothing: a mutant.
exists_never(F, p) == FALSE

exists(F, p) == p \in DOMAIN F
is_file(F, p) == p \in DOMAIN F /\ F[p].kind = "file"
is_dir(F, p) == p \in DOMAIN F /\ F[p].kind = "dir"

\* The prefixes of p, p included, "/" excluded.
Prefixes(p) == {SubSeq(p, 1, n) : n \in 1..Len(p)}

\* Path.mkdir(exist_ok=True) without parents: fails when the directory
\* above p is missing: a mutant.
mkdir_single(F, p) ==
    IF is_dir(F, p) THEN [ok |-> TRUE, fs |-> F]
    ELSE IF is_file(F, p) \/ (p # <<>> /\ ~is_dir(F, SubSeq(p, 1, Len(p) - 1)))
         THEN [ok |-> FALSE, fs |-> F]
         ELSE [ok |-> TRUE, fs |-> (p :> DirEntry) @@ F]

\* Path.mkdir(parents=True, exist_ok=True): fails on a file at p or above it.
mkdir_parents(F, p) ==
    IF \E q \in Prefixes(p) : is_file(F, q)
    THEN [ok |-> FALSE, fs |-> F]
    ELSE [ok |-> TRUE,
          fs |-> [q \in (Prefixes(p) \ DOMAIN F) |-> DirEntry] @@ F]

\* os.linesep on POSIX
os_linesep == <<"LF">>

RECURSIVE write_newlines(_)
\* Text-mode output, newline=None: every line feed becomes os.linesep.
write_newlines(s) ==
    IF s = <<>> THEN <<>>
    ELSE (IF Head(s) = "LF" THEN os_linesep ELSE <<Head(s)>>)
         \o write_newlines(Tail(s))

RECURSIVE read_newlines(_)
\* Text-mode input, newline=None (universal newlines): CR LF and a lone CR
\* are read as a line feed.
read_newlines(b) ==
    IF b = <<>> THEN <<>>
    ELSE IF Head(b) = "CR"
         THEN IF Len(b) >= 2 /\ b[2] = "LF"
              THEN <<"LF">> \o read_newlines(SubSeq(b, 3, Len(b)))
              ELSE <<"LF">> \o read_newlines(Tail(b))
         ELSE <<Head(b)>> \o read_newlines(Tail(b))

\* open(p, 'r', encoding='utf-8').read()
read_text(F, p) == read_newlines(F[p].content)

\* open(p, 'w') on a path that is no directory and whose parent is one:
\* the file is created or truncated.
open_w(F, p) == (p :> FileEntry(<<>>)) @@ F

\* A write that adds to what the file holds: a mutant.
appended(F, p, bytes) == (p :> FileEntry(F[p].content \o bytes)) @@ F

\* The write, at close, of a file object opened by open_w some steps ago:
\* the bytes go to the start of the file, over what another writer may have
\* put there since, and what lies beyond them stays.
flushed(F, p, bytes) ==
    (p :> FileEntry(bytes \o SubSeq(F[p].content, Len(bytes) + 1,
                                     Len(F[p].content)))) @@ F

\* f.write(content) after open_w
write_text(F, p, content) == (p :> FileEntry(write_newlines(content))) @@ F

\* The kernel's walk along a path that still holds ".." segments: every
\* directory passed through must exist; the last segment need not.
RECURSIVE Walk(_, _, _)
Walk(F, cur, rest) ==
    IF rest = <<>> THEN [ok |-> TRUE, path |-> cur]
    ELSE IF ~is_dir(F, cur) THEN [ok |-> FALSE, path |-> <<>>]
    ELSE IF Head(rest) = DOTDOT THEN Walk(F, Parent(cur), Tail(rest))
    ELSE Walk(F, Append(cur, Head(rest)), Tail(rest))

\* A rename that moves nothing: a mutant.
NotMoved(F, src, dst) == F

\* os.rename(src, dst) with dst absent and its parent a directory: the
\* entry and everything below it moves.
Moved(F, src, dst) ==
    LET under == {q \in DOMAIN F : IsPrefix(src, q)}
        to(q) == dst \o SubSeq(q, Len(src) + 1, Len(q))
    IN [q \in ((DOMAIN F \ under) \cup {to(r) : r \in under}) |->
            IF q \in (DOMAIN F \ under) THEN F[q]
            ELSE F[CHOOSE r \in under : to(r) = q]]

\* ----------------------------------------------------------------- results
\* What a call hands back: the status of the returned dict ("raised" when an
\* exception leaves the function instead), the exception that ended the body
\* ("none", "SecurityError", or "Exception" for any other), the file system
\* it leaves, the steps it took in order, and the fields of a success worth
\* keeping.
NoInfo == [lines |-> 0, words |-> 0, characters |-> 0, headers |-> 0,
           links |-> 0, code_blocks |-> 0, is_empty |-> TRUE]
NoOut == [content |-> <<>>, size |-> 0, names |-> {}, path |-> <<>>,
          lines |-> <<>>, files |-> <<>>, info |-> NoInfo]

Result(status, exc, F, trace, out) ==
    [status |-> status, exc |-> exc, fs |-> F, trace |-> trace, out |-> out]

\* return {..., "status": "success"}
Success(F, trace, out) == Result("success", "none", F, trace, out)

\* return {"error": ..., "status": "error"}: a condition the code tests for
Error(F, trace) == Result("error", "none", F, trace, NoOut)

\* except SecurityError as e: return {"error": str(e), "status": "security_error"}
SecurityErr(F, trace) ==
    Result("security_error", "SecurityError", F, trace, NoOut)

\* An operation without its except Exception clause: a mutant.
Uncaught(F, trace) == Result("raised", "Exception", F, trace, NoOut)

\* except Exception as e: return {"error": f"Failed to ...: {str(e)}", "status": "error"}
Caught(F, trace) == Result("error", "Exception", F, trace, NoOut)

\* The dict a caller gets, as far as the claims look at it: its keys (of a
\* success only "status"), its status, the text under "error" with every
\* fixed part and every exception message as one piece, and the values
\* under "function_name" and "arguments".
NoReply == [keys |-> {}, status |-> "none", error |-> <<>>,
            function_name |-> "none", arguments |-> [x \in {} |-> <<>>]]

\* The words each operation's except Exception clause puts before str(e).
FailedTo(op) ==
    CASE op = "list_directory" -> <<"Failed to list directory: ">>
      [] op = "read_file" -> <<"Failed to read file: ">>
      [] op = "create_file" -> <<"Failed to create file: ">>
      [] op = "update_file" -> <<"Failed to update file: ">>
      [] op = "delete_file" -> <<"Failed to delete file: ">>
      [] op = "create_directory" -> <<"Failed to create directory: ">>
      [] op = "rename_file" -> <<"Failed to rename: ">>
      [] op = "move_file" -> <<"Failed to move file: ">>
      [] op = "search_files" -> <<"Search failed: ">>
      [] op = "copy_file" -> <<"Failed to copy file: ">>
      [] op = "get_file_info" -> <<"Failed to get file info: ">>
      [] op = "create_backup" -> <<"Failed to create backup: ">>
      [] op = "list_recent_files" -> <<"Failed to list recent files: ">>

\* The dict operation op returns for its result r; nothing when an
\* exception leaves it.
returned(op, r) ==
    IF r.status = "raised" THEN NoReply
    ELSE IF r.status = "success"
    THEN [NoReply EXCEPT !.keys = {"status"}, !.status = "success"]
    ELSE [NoReply EXCEPT
            !.keys = {"error", "status"},
            !.status = r.status,
            !.error = IF r.exc = "SecurityError" THEN <<"str(e)">>
                      ELSE IF r.exc = "Exception"
                      THEN FailedTo(op) \o <<"str(e)">>
                      ELSE <<"message">>]

\* One step of an operation, appended to its trace.  validate_path called
\* on an argument ("validate") or on a path the operation derived
\* ("revalidate") carries the str it was given, every other step the path
\* it touched.
Step(trace, kind, p) == Append(trace, <<kind, p>>)
Validated(trace, s) == Append(trace, <<"validate", <<s>>>>)
Revalidated(trace, s) == Append(trace, <<"revalidate", <<s>>>>)

\* ------------------------------------------------------ essential functions
Children(F, p) == {q \in DOMAIN F : q # <<>> /\ Parent(q) = p}

list_directory(F, path) ==
    LET v == validate_path(path)
        p == v.path
        t0 == Validated(<<>>, path)
        t1 == Step(t0, "exists", p)
        t2 == Step(t1, "is_dir", p)
        t3 == Step(t2, "iterdir", p)
    IN IF ~v.ok THEN SecurityErr(F, t0)
       ELSE IF ~exists(F, p) THEN Error(F, t1)
       ELSE IF ~is_dir(F, p) THEN Error(F, t2)
       \* item.relative_to(DOCUMENTS_ROOT) raises ValueError
       ELSE IF \E q \in Children(F, p) : ~Inside(q) THEN Caught(F, t3)
       ELSE Success(F, t3, [NoOut EXCEPT !.names = {Name(q) : q \in Children(F, p)},
                                         !.path = p])

read_file(F, filename) ==
    IF filename = NONE THEN Caught(F, <<>>)
    ELSE
    LET fn == ensure_markdown_extension(filename)
        v == validate_path(fn)
        p == v.path
        t0 == Validated(<<>>, fn)
        t1 == Step(t0, "exists", p)
        t2 == Step(t1, "is_file", p)
        t3 == Step(t2, "read", p)
        content == read_text(F, p)
    IN IF ~v.ok THEN SecurityErr(F, t0)
       ELSE IF ~exists(F, p) THEN Error(F, t1)
       ELSE IF ~is_file(F, p) THEN Error(F, t2)
       ELSE Success(F, t3, [NoOut EXCEPT !.content = content,
                                         !.size = Len(content), !.path = p])

create_file(F, filename, content) ==
    IF filename = NONE THEN Caught(F, <<>>)
    ELSE
    LET fn == ensure_markdown_extension(filename)
        v == validate_path(fn)
        p == v.path
        t0 == Validated(<<>>, fn)
        t1 == Step(t0, "mkdir", Parent(p))
        mk == mkdir_parents(F, Parent(p))
        t2 == Step(t1, "exists", p)
        t3 == Step(t2, "write", p)
    IN IF ~v.ok THEN SecurityErr(F, t0)
       ELSE IF ~mk.ok THEN Caught(F, t1)
       ELSE IF exists(mk.fs, p) THEN Error(mk.fs, t2)
       \* f.write(None) raises TypeError once open() has made the file
       ELSE IF content = NONE THEN Caught(open_w(mk.fs, p), t3)
       ELSE Success(write_text(mk.fs, p, content), t3,
                    [NoOut EXCEPT !.size = Len(content), !.path = p])

\* A mode check that lets every mode through: a mutant.
AnyMode == {"replace", "append", "prepend", "bogus"}

\* mode is only ever compared; it is kept as one value.
UpdateModes == {"replace", "append", "prepend"}

update_file(F, filename, content, mode) ==
    IF filename = NONE THEN Caught(F, <<>>)
    ELSE
    LET fn == ensure_markdown_extension(filename)
        v == validate_path(fn)
        p == v.path
        t0 == Validated(<<>>, fn)
        t1 == Step(t0, "exists", p)
        t2 == IF mode = "replace" THEN t1 ELSE Step(t1, "read", p)
        t3 == Step(t2, "write", p)
        existing_content == read_text(F, p)
        new_content ==
            IF mode = "replace" THEN content
            ELSE IF mode = "append" THEN existing_content \o <<"LF">> \o content
            ELSE content \o <<"LF">> \o existing_content
    IN IF ~v.ok THEN SecurityErr(F, t0)
       ELSE IF ~exists(F, p) THEN Error(F, t1)
       ELSE IF mode \notin UpdateModes THEN Error(F, t1)
       \* open() of a directory raises IsADirectoryError
       ELSE IF is_dir(F, p) THEN Caught(F, t2)
       \* str + None raises TypeError before the file is opened for writing
       ELSE IF content = NONE /\ mode # "replace" THEN Caught(F, t2)
       ELSE IF content = NONE THEN Caught(open_w(F, p), t3)
       ELSE Success(write_text(F, p, new_content), t3,
                    [NoOut EXCEPT !.size = Len(new_content), !.path = p])

\* An unlink that leaves the entry in place: a mutant.
NotUnlinked(F, p) == F

\* An unlink that takes the other files of the directory with it: a
\* mutant.
UnlinkedAll(F, p) ==
    [q \in {r \in DOMAIN F : ~(Parent(r) = Parent(p) /\ is_file(F, r))} |-> F[q]]

\* Path.unlink()
Unlinked(F, p) == [q \in (DOMAIN F \ {p}) |-> F[q]]

delete_file(F, filename) ==
    IF filename = NONE THEN Caught(F, <<>>)
    ELSE
    LET fn == ensure_markdown_extension(filename)
        v == validate_path(fn)
        p == v.path
        t0 == Validated(<<>>, fn)
        t1 == Step(t0, "exists", p)
        t2 == Step(t1, "is_file", p)
        t3 == Step(Step(t2, "stat", p), "unlink", p)
    IN IF ~v.ok THEN SecurityErr(F, t0)
       ELSE IF ~exists(F, p) THEN Error(F, t1)
       ELSE IF ~is_file(F, p) THEN Error(F, t2)
       ELSE Success(Unlinked(F, p), t3,
                    [NoOut EXCEPT !.size = Len(F[p].content), !.path = p])

\* --------------------------------------------------- intermediate functions
create_directory(F, dirname) ==
    LET v == validate_path(dirname)
        p == v.path
        t0 == Validated(<<>>, dirname)
        t1 == Step(t0, "exists", p)
        t2 == Step(t1, "mkdir", p)
        mk == mkdir_parents(F, p)
    IN IF ~v.ok THEN SecurityErr(F, t0)
       ELSE IF exists(F, p) THEN Error(F, t1)
       ELSE IF ~mk.ok THEN Caught(F, t2)
       ELSE Success(mk.fs, t2, [NoOut EXCEPT !.path = p])

\* str(path.relative_to(DOCUMENTS_ROOT)) of a path that starts with the
\* root's segments: "." for the root itself.
RelativeStr(raw) ==
    LET rel == SubSeq(raw, Len(DOCUMENTS_ROOT) + 1, Len(raw))
    IN IF rel = <<>> THEN DOT ELSE JoinWith(rel, SLASH)

rename_file(F, old_name, new_name) ==
    LET v == validate_path(old_name)
        old_path == v.path
        t0 == Validated(<<>>, old_name)
        t1 == Step(t0, "exists", old_path)
        t2 == Step(t1, "is_file", old_path)
        nn == IF is_file(F, old_path) THEN ensure_markdown_extension(new_name)
              ELSE new_name
        \* old_path.parent / new_name: ".." segments stay in the path
        new_path == JoinPath(Parent(old_path), nn)
        rel == RelativeStr(new_path)
        v2 == validate_path(rel)
        t3 == Validated(t2, rel)
        w == Walk(F, <<>>, new_path)
        t4 == Step(t3, "exists", new_path)
        t5 == Step(t4, "rename", old_path)
    IN IF ~v.ok THEN SecurityErr(F, t0)
       ELSE IF ~exists(F, old_path) THEN Error(F, t1)
       \* None.endswith, or Path / None
       ELSE IF new_name = NONE THEN Caught(F, t2)
       \* relative_to raises ValueError
       ELSE IF ~IsPrefix(DOCUMENTS_ROOT, new_path) THEN Caught(F, t2)
       ELSE IF ~v2.ok THEN SecurityErr(F, t3)
       ELSE IF w.ok /\ exists(F, w.path) THEN Error(F, t4)
       \* os.rename: a missing directory on the way, or a directory moved
       \* into itself
       ELSE IF ~w.ok \/ IsPrefix(old_path, w.path) THEN Caught(F, t5)
       ELSE Success(Moved(F, old_path, w.path), t5, [NoOut EXCEPT !.path = w.path])

move_file(F, source, destination) ==
    LET v == validate_path(source)
        source_path == v.path
        t0 == Validated(<<>>, source)
        t1 == Step(t0, "exists", source_path)
        v2 == validate_path(destination)
        t2 == Validated(t1, destination)
        into_dir == is_dir(F, v2.path)
        with_md == ~into_dir /\ is_file(F, source_path)
        v3 == validate_path(ensure_markdown_extension(destination))
        t3 == IF with_md
              THEN Validated(Step(t2, "is_dir", v2.path),
                             ensure_markdown_extension(destination))
              ELSE Step(t2, "is_dir", v2.path)
        dest_path == IF into_dir THEN Append(v2.path, Name(source_path))
                     ELSE IF with_md THEN v3.path
                     ELSE v2.path
        rel == RelativeStr(dest_path)
        v4 == validate_path(rel)
        t4 == Revalidated(t3, rel)
        mk == mkdir_parents(F, Parent(dest_path))
        t5 == Step(t4, "mkdir", Parent(dest_path))
        t6 == Step(t5, "exists", dest_path)
        t7 == Step(t6, "rename", source_path)
    IN IF ~v.ok THEN SecurityErr(F, t0)
       ELSE IF ~exists(F, source_path) THEN Error(F, t1)
       ELSE IF ~v2.ok THEN SecurityErr(F, t2)
       ELSE IF with_md /\ ~v3.ok THEN SecurityErr(F, t3)
       \* relative_to raises ValueError
       ELSE IF ~IsPrefix(DOCUMENTS_ROOT, dest_path) THEN Caught(F, t3)
       ELSE IF ~v4.ok THEN SecurityErr(F, t4)
       ELSE IF ~mk.ok THEN Caught(F, t5)
       ELSE IF exists(mk.fs, dest_path) THEN Error(mk.fs, t6)
       \* shutil.move: "Cannot move a directory into itself"
       ELSE IF IsPrefix(source_path, dest_path) THEN Caught(mk.fs, t7)
       ELSE Success(Moved(mk.fs, source_path, dest_path), t7,
                    [NoOut EXCEPT !.path = dest_path])

\* ------------------------------------------------------- advanced functions
UpperCase == <<"A", "B", "C", "D", "E", "F", "G", "H", "I", "J", "K", "L", "M",
               "N", "O", "P", "Q", "R", "S", "T", "U", "V", "W", "X", "Y", "Z">>
LowerCase == <<"a", "b", "c", "d", "e", "f", "g", "h", "i", "j", "k", "l", "m",
               "n", "o", "p", "q", "r", "s", "t", "u", "v", "w", "x", "y", "z">>

\* str.lower()
lower(s) ==
    [i \in 1..Len(s) |->
        IF \E k \in 1..Len(UpperCase) : UpperCase[k] = s[i]
        THEN LowerCase[CHOOSE k \in 1..Len(UpperCase) : UpperCase[k] = s[i]]
        ELSE s[i]]

\* needle in hay
Contains(hay, needle) ==
    \E i \in 0..(Len(hay) - Len(needle)) :
        SubSeq(hay, i + 1, i + Len(needle)) = needle

\* DOCUMENTS_ROOT.rglob("*.md"), the files among the matches
MdFiles(F) ==
    {q \in DOMAIN F : /\ IsPrefix(DOCUMENTS_ROOT, q) /\ q # DOCUMENTS_ROOT
                      /\ endswith(Name(q), MD) /\ is_file(F, q)}

\* search_type is only ever compared; it is kept as one value.
SearchTypes == {"content", "filename"}

\* str.splitlines() of text read with universal newlines: the pieces
\* between the line feeds, without an empty piece after the last one.
splitlines(content) ==
    LET pieces == Split(content, "LF")
    IN IF pieces[Len(pieces)] = <<>>
       THEN SubSeq(pieces, 1, Len(pieces) - 1)
       ELSE pieces

\* The "line_number" of each entry of matching_lines[:5]: the numbers,
\* counted from 1 and in order, of the first five lines that hold the query.
matching_lines(content, query) ==
    LET lines == splitlines(content)
        numbers == SelectSeq([i \in 1..Len(lines) |-> i],
                             LAMBDA i : Contains(lower(lines[i]), lower(query)))
    IN SubSeq(numbers, 1, IF Len(numbers) < 5 THEN Len(numbers) ELSE 5)

\* The result keeps the "file" of every match, the line numbers of its
\* "matches", and the count of files searched.
search_files(F, query, search_type) ==
    LET t0 == Step(<<>>, "scan", DOCUMENTS_ROOT)
        hits == IF search_type = "filename"
                THEN {q \in MdFiles(F) : Contains(lower(Name(q)), lower(query))}
                ELSE {q \in MdFiles(F) :
                         Contains(lower(read_text(F, q)), lower(query))}
        found == {RelativeStr(q) : q \in hits}
        file(f) == CHOOSE q \in hits : RelativeStr(q) = f
    IN IF search_type \notin SearchTypes THEN Error(F, <<>>)
       \* None.lower() raises AttributeError: in the file-name branch it
       \* reaches the outer except clause, in the content branch the inner
       \* one, which skips the file
       ELSE IF query = NONE /\ search_type = "filename" /\ MdFiles(F) # {}
            THEN Caught(F, t0)
       ELSE IF query = NONE
            THEN Success(F, t0, [NoOut EXCEPT !.size = Cardinality(MdFiles(F))])
       ELSE Success(F, t0,
                [NoOut EXCEPT
                    !.names = found,
                    !.size = Cardinality(MdFiles(F)),
                    !.lines = IF search_type = "filename" THEN <<>>
                              ELSE [f \in found |->
                                       matching_lines(read_text(F, file(f)),
                                                      query)]])

\* A copy that leaves the new file empty: a mutant.
CopiedEmpty(F, src, dst) == (dst :> FileEntry(<<>>)) @@ F

\* shutil.copy2(src, dst) with dst no directory: the bytes are copied
\* untranslated.
Copied(F, src, dst) == (dst :> FileEntry(F[src].content)) @@ F

copy_file(F, source, destination) ==
    LET v == validate_path(source)
        source_path == v.path
        t0 == Validated(<<>>, source)
        t1 == Step(t0, "exists", source_path)
        t2 == Step(t1, "is_file", source_path)
        dest == ensure_markdown_extension(destination)
        v2 == validate_path(dest)
        dest_path == v2.path
        t3 == Validated(t2, dest)
        mk == mkdir_parents(F, Parent(dest_path))
        t4 == Step(t3, "mkdir", Parent(dest_path))
        t5 == Step(t4, "exists", dest_path)
        t6 == Step(Step(t5, "read", source_path), "write", dest_path)
    IN IF ~v.ok THEN SecurityErr(F, t0)
       ELSE IF ~exists(F, source_path) THEN Error(F, t1)
       ELSE IF ~is_file(F, source_path) THEN Error(F, t2)
       ELSE IF destination = NONE THEN Caught(F, t2)
       ELSE IF ~v2.ok THEN SecurityErr(F, t3)
       ELSE IF ~mk.ok THEN Caught(F, t4)
       ELSE IF exists(mk.fs, dest_path) THEN Error(mk.fs, t5)
       ELSE Success(Copied(mk.fs, source_path, dest_path), t6,
                    [NoOut EXCEPT !.size = Len(F[source_path].content),
                                  !.path = dest_path])

\* The characters str.strip() and str.split() take for white space.
Whitespace == {" ", "TAB", "LF", "CR"}

RECURSIVE lstrip(_)
lstrip(s) ==
    IF s # <<>> /\ Head(s) \in Whitespace THEN lstrip(Tail(s)) ELSE s

RECURSIVE rstrip(_)
rstrip(s) ==
    IF s # <<>> /\ s[Len(s)] \in Whitespace
    THEN rstrip(SubSeq(s, 1, Len(s) - 1)) ELSE s

\* str.strip()
strip(s) == rstrip(lstrip(s))

\* len(content.split()): the runs of characters that are not white space.
words(content) ==
    Cardinality({i \in 1..Len(content) :
                    /\ content[i] \notin Whitespace
                    /\ i = 1 \/ content[i - 1] \in Whitespace})

RECURSIVE count(_, _)
\* str.count(sub): the occurrences of sub that do not overlap, from the
\* left.
count(s, sub) ==
    IF Len(s) < Len(sub) THEN 0
    ELSE IF startswith(s, sub)
         THEN 1 + count(SubSeq(s, Len(sub) + 1, Len(s)), sub)
         ELSE count(Tail(s), sub)

\* Three backticks.
FENCE == <<"BT", "BT", "BT">>

\* line.strip().startswith('#')
is_header(line) == startswith(strip(line), <<"#">>)

\* '[' in line and '](' in line
is_link(line) == Contains(line, <<"[">>) /\ Contains(line, <<"]", "(">>)

\* The counts get_file_info computes from the content it read.
analyze(content) ==
    LET lines == splitlines(content)
    IN [lines |-> Len(lines),
        words |-> words(content),
        characters |-> Len(content),
        headers |-> Cardinality({i \in 1..Len(lines) : is_header(lines[i])}),
        links |-> Cardinality({i \in 1..Len(lines) : is_link(lines[i])}),
        code_blocks |-> count(content, FENCE) \div 2,
        is_empty |-> Len(strip(content)) = 0]

\* The result keeps the content read, the size and the counts.
get_file_info(F, filename) ==
    IF filename = NONE THEN Caught(F, <<>>)
    ELSE
    LET fn == ensure_markdown_extension(filename)
        v == validate_path(fn)
        p == v.path
        t0 == Validated(<<>>, fn)
        t1 == Step(t0, "exists", p)
        t2 == Step(t1, "is_file", p)
        t3 == Step(Step(t2, "stat", p), "read", p)
    IN IF ~v.ok THEN SecurityErr(F, t0)
       ELSE IF ~exists(F, p) THEN Error(F, t1)
       ELSE IF ~is_file(F, p) THEN Error(F, t2)
       ELSE Success(F, t3, [NoOut EXCEPT !.content = read_text(F, p),
                                         !.size = Len(F[p].content),
                                         !.path = p,
                                         !.info = analyze(read_text(F, p))])

BACKUP == <<"_", "b", "a", "c", "k", "u", "p", "_">>

\* timestamp is datetime.now() as strftime formats it.
create_backup(F, filename, timestamp) ==
    IF filename = NONE THEN Caught(F, <<>>)
    ELSE
    LET fn == ensure_markdown_extension(filename)
        v == validate_path(fn)
        p == v.path
        t0 == Validated(<<>>, fn)
        t1 == Step(t0, "exists", p)
        t2 == Step(t1, "is_file", p)
        backup_name == Stem(Name(p)) \o BACKUP \o timestamp \o MD
        backup_path == Append(Parent(p), backup_name)
        rel == RelativeStr(backup_path)
        v2 == validate_path(rel)
        t3 == Revalidated(t2, rel)
        \* shutil.copy2 into an existing directory copies under the
        \* source's name
        dst == IF is_dir(F, backup_path) THEN Append(backup_path, Name(p))
               ELSE backup_path
        t4 == Step(Step(t3, "read", p), "write", dst)
    IN IF ~v.ok THEN SecurityErr(F, t0)
       ELSE IF ~exists(F, p) THEN Error(F, t1)
       ELSE IF ~is_file(F, p) THEN Error(F, t2)
       \* relative_to raises ValueError
       ELSE IF ~IsPrefix(DOCUMENTS_ROOT, backup_path) THEN Caught(F, t2)
       ELSE IF ~v2.ok THEN SecurityErr(F, t3)
       ELSE IF is_dir(F, dst) THEN Caught(F, t4)
       ELSE Success(Copied(F, p, dst), t4,
                    [NoOut EXCEPT !.size = Len(F[p].content), !.path = backup_path])

\* Time runs in half hours.
HOUR == 2
DAY == 24 * HOUR

\* The instant at which the clocks of the zone "local" go back one hour;
\* the zone "UTC" never shifts.
FallBack == 0
utcoffset(tz, t) == IF tz = "local" /\ t < FallBack THEN HOUR ELSE 0

\* datetime.datetime.fromtimestamp(t), and now() for the current instant:
\* the naive wall-clock time of the zone.
fromtimestamp(tz, t) == t + utcoffset(tz, t)

\* A range check that lets days = 0 through: a mutant.
DaysFromZero == 0..365

\* not (days < 1 or days > 365), not (limit < 1 or limit > 100)
DaysAllowed == 1..365
LimitAllowed == 1..100

RECURSIVE sort_reverse(_, _)
\* list.sort(key=..., reverse=True): stable, so items with equal keys stay
\* in the order they had.  key maps each item to its sort key.
sort_reverse(items, key) ==
    IF items = <<>> THEN <<>>
    ELSE LET x == items[Len(items)]
             rest == sort_reverse(SubSeq(items, 1, Len(items) - 1), key)
             n == Cardinality({i \in 1..Len(rest) : key[rest[i]] >= key[x]})
         IN SubSeq(rest, 1, n) \o <<x>> \o SubSeq(rest, n + 1, Len(rest))

\* What a scan meets: the zone of the machine, the instant of the call, the
\* st_mtime of every markdown file, and the order in which rglob yields
\* them.
NoScan == [tz |-> "UTC", now |-> 0, mtime |-> <<>>, scan |-> <<>>]

\* The result keeps the "file" of every entry, in order.  The "modified"
\* string, isoformat() of the wall-clock time, sorts as that time does.
list_recent_files(F, days, limit, seen) ==
    LET t0 == Step(<<>>, "scan", DOCUMENTS_ROOT)
        cutoff_time == fromtimestamp(seen.tz, seen.now) - days * DAY
        modified == [q \in MdFiles(F) |-> fromtimestamp(seen.tz, seen.mtime[q])]
        recent_files == SelectSeq(seen.scan, LAMBDA q : modified[q] >= cutoff_time)
        sorted == sort_reverse(recent_files, modified)
        limited == SubSeq(sorted, 1, IF Len(sorted) < limit THEN Len(sorted)
                                     ELSE limit)
    IN IF days \notin DaysAllowed THEN Error(F, <<>>)
       ELSE IF limit \notin LimitAllowed THEN Error(F, <<>>)
       ELSE Success(F, t0,
                [NoOut EXCEPT !.files = [i \in 1..Len(limited) |->
                                            RelativeStr(limited[i])],
                              !.size = Len(limited)])

\* ------------------------------------------------------------------- calls
\* The parameters of each function of AVAILABLE_FUNCTIONS: those a call must
\* name, and those with a default.
Required(op) ==
    CASE op = "list_directory" -> {}
      [] op = "read_file" -> {"filename"}
      [] op = "create_file" -> {"filename"}
      [] op = "update_file" -> {"filename", "content"}
      [] op = "delete_file" -> {"filename"}
      [] op = "create_directory" -> {"dirname"}
      [] op = "rename_file" -> {"old_name", "new_name"}
      [] op = "move_file" -> {"source", "destination"}
      [] op = "search_files" -> {"query"}
      [] op = "copy_file" -> {"source", "destination"}
      [] op = "get_file_info" -> {"filename"}
      [] op = "create_backup" -> {"filename"}
      [] op = "list_recent_files" -> {}
      [] op = "get_weather" -> {"location"}

Defaults(op) ==
    CASE op = "list_directory" -> [path |-> DOT]
      [] op = "create_file" -> [content |-> <<>>]
      [] op = "update_file" -> [mode |-> "replace"]
      [] op = "search_files" -> [search_type |-> "content"]
      [] op = "list_recent_files" -> [days |-> 7, limit |-> 10]
      [] op = "get_weather" -> [unit |-> <<"c", "e", "l", "s", "i", "u", "s">>]
      [] OTHER -> [x \in {} |-> <<>>]

\* A call op(**kw) binds when kw names every required parameter and no
\* unknown one; otherwise Python raises TypeError before the body runs.
Binds(op, kw) ==
    /\ Required(op) \subseteq DOMAIN kw
    /\ DOMAIN kw \subseteq (Required(op) \cup DOMAIN Defaults(op))

\* The value a bound call gives parameter n: the caller's, or the default.
Arg(op, kw, n) == IF n \in DOMAIN kw THEN kw[n] ELSE Defaults(op)[n]

\* TypeError leaves the call that does not bind.
Raised(F) == Result("raised", "Exception", F, <<>>, NoOut)

\* ------------------------------------------------------------------ inputs
\* Path arguments: a plain and a nested name, the root, ".." out of the
\* sandbox, the sibling whose name continues the root's, an absolute path,
\* and None.
PathInputs ==
    { <<"a", ".", "m", "d">>, <<"d">>, <<"d", "/", "a">>, DOT,
      <<".", ".", "/", "s">>,
      <<".", ".", "/", "d", "o", "c", "s", "E", "/", "x">>,
      <<"/", "e", "/", "p">>,
      NONE }

ContentInputs == { <<"x">>, NONE }
ModeInputs == UpdateModes \cup {"bogus"}
Timestamps == { <<"1">> }
QueryInputs == { <<"A">>, NONE }

\* Mappings that do not bind: an unknown name, alone or beside the
\* required ones.
Unbound(op) ==
    {[bogus |-> <<"a">>]} \cup
    (IF op = "update_file" THEN {[filename |-> <<"a">>]}
     ELSE IF op = "rename_file" THEN {[old_name |-> <<"a">>]}
     ELSE {})

\* ------------------------------------------------------------------ actions
WithinBounds(F) ==
    /\ Cardinality(DOMAIN F \ DOMAIN SiblingFS) <= MaxNew
    /\ \A q \in DOMAIN F : Len(F[q].content) <= MaxContent

\* No call made yet, or its result taken.
NoCall == [op |-> "none", kw |-> [x \in {} |-> <<>>], status |-> "none"]
Idle == [op |-> "none", kw |-> [x \in {} |-> <<>>], status |-> "none",
         exc |-> "none", out |-> NoOut, trace |-> <<>>, now |-> <<>>, prev |-> NoCall,
         via |-> "none", reply |-> NoReply, inner |-> NoReply, invocations |-> 0]

\* The callers that may be inside create_file at the same time, and where
\* each one is: not in a call, before one of the steps of the body, or
\* back with a status.
Callers == {"first", "second"}
NotCalling == [pc |-> "none", filename |-> <<>>, content |-> <<>>,
                 status |-> "none"]
NoCalls == [c \in Callers |-> NotCalling]

\* The record a call leaves behind: the call, its result r, and the call
\* before it; who made the call ("direct" for the caller itself), the dict
\* the caller gets, the dict the operation returned, and how often the
\* operation was called.
Seen(op, kw, r, now) ==
    [op |-> op, kw |-> kw, status |-> r.status, exc |-> r.exc, out |-> r.out,
     trace |-> r.trace, now |-> now,
     prev |-> [op |-> last.op, kw |-> last.kw, status |-> last.status],
     via |-> "direct", reply |-> returned(op, r), inner |-> returned(op, r),
     invocations |-> 1]

ListDirectory(P) ==
    \E kw \in {[x \in {} |-> <<>>]} \cup {[path |-> p] : p \in P}
              \cup Unbound("list_directory") :
        \E r \in {IF Binds("list_directory", kw)
                   THEN list_directory(fs, Arg("list_directory", kw, "path"))
                   ELSE Raised(fs)} :
           /\ WithinBounds(r.fs)
           /\ fs' = r.fs
           /\ UNCHANGED calls
           /\ last' = Seen("list_directory", kw, r, <<>>)

ReadFile(P) ==
    \E kw \in {[filename |-> p] : p \in P} \cup Unbound("read_file") :
        \E r \in {IF Binds("read_file", kw)
                   THEN read_file(fs, kw.filename)
                   ELSE Raised(fs)} :
           /\ WithinBounds(r.fs)
           /\ fs' = r.fs
           /\ UNCHANGED calls
           /\ last' = Seen("read_file", kw, r, <<>>)

CreateFile(P, C) ==
    \E kw \in {[filename |-> p] : p \in P}
              \cup {[filename |-> p, content |-> c] : p \in P, c \in C}
              \cup Unbound("create_file") :
        \E r \in {IF Binds("create_file", kw)
                   THEN create_file(fs, kw.filename, Arg("create_file", kw, "content"))
                   ELSE Raised(fs)} :
           /\ WithinBounds(r.fs)
           /\ fs' = r.fs
           /\ UNCHANGED calls
           /\ last' = Seen("create_file", kw, r, <<>>)

UpdateFile(P, C, M) ==
    \E kw \in {[filename |-> p, content |-> c] : p \in P, c \in C}
              \cup {[filename |-> p, content |-> c, mode |-> m] :
                       p \in P, c \in C, m \in M}
              \cup Unbound("update_file") :
        \E r \in {IF Binds("update_file", kw)
                   THEN update_file(fs, kw.filename, kw.content,
                                   Arg("update_file", kw, "mode"))
                   ELSE Raised(fs)} :
           /\ WithinBounds(r.fs)
           /\ fs' = r.fs
           /\ UNCHANGED calls
           /\ last' = Seen("update_file", kw, r, <<>>)

DeleteFile(P) ==
    \E kw \in {[filename |-> p] : p \in P} \cup Unbound("delete_file") :
        \E r \in {IF Binds("delete_file", kw)
                   THEN delete_file(fs, kw.filename)
                   ELSE Raised(fs)} :
           /\ WithinBounds(r.fs)
           /\ fs' = r.fs
           /\ UNCHANGED calls
           /\ last' = Seen("delete_file", kw, r, <<>>)

CreateDirectory(P) ==
    \E kw \in {[dirname |-> p] : p \in P} \cup Unbound("create_directory") :
        \E r \in {IF Binds("create_directory", kw)
                   THEN create_directory(fs, kw.dirname)
                   ELSE Raised(fs)} :
           /\ WithinBounds(r.fs)
           /\ fs' = r.fs
           /\ UNCHANGED calls
           /\ last' = Seen("create_directory", kw, r, <<>>)

RenameFile(P) ==
    \E kw \in {[old_name |-> p, new_name |-> q] : p \in P, q \in P}
              \cup Unbound("rename_file") :
        \E r \in {IF Binds("rename_file", kw)
                   THEN rename_file(fs, kw.old_name, kw.new_name)
                   ELSE Raised(fs)} :
           /\ WithinBounds(r.fs)
           /\ fs' = r.fs
           /\ UNCHANGED calls
           /\ last' = Seen("rename_file", kw, r, <<>>)

MoveFile(P) ==
    \E kw \in {[source |-> p, destination |-> q] : p \in P, q \in P}
              \cup Unbound("move_file") :
        \E r \in {IF Binds("move_file", kw)
                   THEN move_file(fs, kw.source, kw.destination)
                   ELSE Raised(fs)} :
           /\ WithinBounds(r.fs)
           /\ fs' = r.fs
           /\ UNCHANGED calls
           /\ last' = Seen("move_file", kw, r, <<>>)

SearchFiles(Q) ==
    \E kw \in {[query |-> q] : q \in Q}
              \cup {[query |-> q, search_type |-> t] :
                       q \in Q, t \in SearchTypes \cup {"bogus"}}
              \cup Unbound("search_files") :
        \E r \in {IF Binds("search_files", kw)
                   THEN search_files(fs, kw.query,
                                    Arg("search_files", kw, "search_type"))
                   ELSE Raised(fs)} :
           /\ WithinBounds(r.fs)
           /\ fs' = r.fs
           /\ UNCHANGED calls
           /\ last' = Seen("search_files", kw, r, <<>>)

CopyFile(P) ==
    \E kw \in {[source |-> p, destination |-> q] : p \in P, q \in P}
              \cup Unbound("copy_file") :
        \E r \in {IF Binds("copy_file", kw)
                   THEN copy_file(fs, kw.source, kw.destination)
                   ELSE Raised(fs)} :
           /\ WithinBounds(r.fs)
           /\ fs' = r.fs
           /\ UNCHANGED calls
           /\ last' = Seen("copy_file", kw, r, <<>>)

GetFileInfo(P) ==
    \E kw \in {[filename |-> p] : p \in P} \cup Unbound("get_file_info") :
        \E r \in {IF Binds("get_file_info", kw)
                   THEN get_file_info(fs, kw.filename)
                   ELSE Raised(fs)} :
           /\ WithinBounds(r.fs)
           /\ fs' = r.fs
           /\ UNCHANGED calls
           /\ last' = Seen("get_file_info", kw, r, <<>>)

CreateBackup(P, T) ==
    \E kw \in {[filename |-> p] : p \in P} \cup Unbound("create_backup"),
       now \in T :
        \E r \in {IF Binds("create_backup", kw)
                   THEN create_backup(fs, kw.filename, now)
                   ELSE Raised(fs)} :
           /\ WithinBounds(r.fs)
           /\ fs' = r.fs
           /\ UNCHANGED calls
           /\ last' = Seen("create_backup", kw, r, now)

\* The orders in which a scan may yield the files of S.
Orders(S) ==
    {o \in [1..Cardinality(S) -> S] :
        \A i, j \in 1..Cardinality(S) : i # j => o[i] # o[j]}

\* The scans of F at instant now, in the zones Z, of files last modified at
\* instants of T that are not after now.
Scans(F, Z, T, now) ==
    {[tz |-> tz, now |-> now, mtime |-> m, scan |-> o] :
        tz \in Z, m \in [MdFiles(F) -> {t \in T : t <= now}],
        o \in Orders(MdFiles(F))}

ListRecentFiles(D, L, Z, T) ==
    \E kw \in {[x \in {} |-> <<>>]}
              \cup {[days |-> d, limit |-> l] : d \in D, l \in L}
              \cup Unbound("list_recent_files"),
       now \in T :
        \E seen \in Scans(fs, Z, T, now) :
            \E r \in {IF Binds("list_recent_files", kw)
                       THEN list_recent_files(fs,
                                Arg("list_recent_files", kw, "days"),
                                Arg("list_recent_files", kw, "limit"), seen)
                       ELSE Raised(fs)} :
               /\ WithinBounds(r.fs)
               /\ fs' = r.fs
               /\ UNCHANGED calls
               /\ last' = Seen("list_recent_files", kw, r,
                               IF r.status = "success" THEN <<seen>> ELSE <<>>)

\* ------------------------------------------------------ the dispatchers
\* What function_to_call(**arguments) ends with: an exception (the
\* TypeError of a mapping that does not bind, or one from the body), or
\* the dict the function returned.
Raises == [raised |-> TRUE, dict |-> NoReply]
Returns(dict) == [raised |-> FALSE, dict |-> dict]

\* What a dispatcher ends with: the dict it returns and the number of
\* times it called the registered function, or an exception of its own.
Dispatched(dict, n) == [raised |-> FALSE, dict |-> dict, invocations |-> n]

\* A call_function without its try: a mutant.
call_function_no_try(registry, function_name, arguments, body) ==
    IF function_name \notin registry
    THEN Dispatched([NoReply EXCEPT !.keys = {"error", "status"},
                                    !.status = "error",
                                    !.error = <<"Function '", function_name,
                                                "' not found">>], 0)
    ELSE [raised |-> body.raised, dict |-> body.dict, invocations |-> 1]

\* simple_function_caller.call_function
call_function(registry, function_name, arguments, body) ==
    IF function_name \notin registry
    THEN Dispatched([NoReply EXCEPT !.keys = {"error", "status"},
                                    !.status = "error",
                                    !.error = <<"Function '", function_name,
                                                "' not found">>], 0)
    ELSE IF body.raised
    THEN Dispatched([NoReply EXCEPT !.keys = {"error", "status"},
                                    !.status = "error",
                                    !.error = <<"str(e)">>], 1)
    ELSE Dispatched(body.dict, 1)

\* FunctionExecutor.execute_function_call
executor_execute_function_call(registry, function_name, arguments, body) ==
    IF function_name \notin registry
    THEN Dispatched([NoReply EXCEPT
                        !.keys = {"error", "available_functions", "status"},
                        !.status = "error",
                        !.error = <<"Function '", function_name,
                                    "' not found">>], 0)
    ELSE IF body.raised
    THEN Dispatched([NoReply EXCEPT
                        !.keys = {"error", "function_name", "arguments",
                                  "status"},
                        !.status = "error",
                        !.error = <<"Error executing ", function_name, ": ",
                                    "str(e)">>,
                        !.function_name = function_name,
                        !.arguments = arguments], 1)
    ELSE Dispatched(body.dict, 1)

\* MarkdownChatbot.execute_function_call
chatbot_execute_function_call(registry, function_name, arguments, body) ==
    IF function_name \notin registry
    THEN Dispatched([NoReply EXCEPT
                        !.keys = {"error", "available_functions", "status"},
                        !.status = "error",
                        !.error = <<"Function '", function_name,
                                    "' not available">>], 0)
    ELSE IF body.raised
    THEN Dispatched([NoReply EXCEPT
                        !.keys = {"error", "function_name", "arguments",
                                  "status"},
                        !.status = "execution_error",
                        !.error = <<"Function execution failed: ", "str(e)">>,
                        !.function_name = function_name,
                        !.arguments = arguments], 1)
    ELSE Dispatched(body.dict, 1)

\* The registries: FUNCTIONS of simple_function_caller, AVAILABLE_FUNCTIONS
\* of function_registry, and AVAILABLE_FUNCTIONS of file_operations.
FUNCTIONS ==
    {"get_weather", "calculate_tip", "add_numbers", "multiply_numbers"}
REGISTRY_FUNCTIONS ==
    {"get_weather", "calculate_tip", "convert_currency", "send_notification",
     "calculate_distance"}
AVAILABLE_FUNCTIONS ==
    {"list_directory", "read_file", "create_file", "update_file",
     "delete_file", "create_directory", "rename_file", "move_file",
     "search_files", "copy_file", "get_file_info", "create_backup",
     "list_recent_files"}

\* The places get_weather knows, in lower case.
weather_data == { <<"t", "o", "k", "y", "o">>, <<"p", "a", "r", "i", "s">> }

\* get_weather(location, unit): None.lower() raises AttributeError.
get_weather(location, unit) ==
    IF location = NONE THEN Raises
    ELSE IF lower(location) \in weather_data
    THEN Returns([NoReply EXCEPT !.keys = {"status"}, !.status = "success"])
    ELSE Returns([NoReply EXCEPT !.keys = {"location", "error", "status"},
                                 !.status = "error",
                                 !.error = <<"message">>])

\* get_weather(**arguments)
weather_body(arguments) ==
    IF ~Binds("get_weather", arguments) THEN Raises
    ELSE get_weather(arguments.location,
                     Arg("get_weather", arguments, "unit"))

\* The function was never called.
NotCalled == Returns(NoReply)

\* What a dispatcher's call leaves behind: the dict the caller gets, the
\* dict the function returned, the exception that ended the function or
\* its body, and the count of calls.
Handed(via, function_name, arguments, d, body, exc, out, trace) ==
    [op |-> function_name, kw |-> arguments,
     status |-> IF d.raised THEN "raised" ELSE d.dict.status,
     exc |-> exc,
     out |-> out, trace |-> trace, now |-> <<>>,
     prev |-> [op |-> last.op, kw |-> last.kw, status |-> last.status],
     via |-> via, reply |-> d.dict, inner |-> body.dict,
     invocations |-> d.invocations]

WeatherNames == {"get_weather", "nonexistent_function"}
WeatherArguments ==
    {[x \in {} |-> <<>>], [invalid_arg |-> <<"1">>]}
    \cup {[location |-> l] : l \in { <<"T", "o", "k", "y", "o">>,
                                      <<"O", "s", "l", "o">>, NONE }}
    \cup {[location |-> <<"p", "a", "r", "i", "s">>, unit |-> <<"f">>]}

CallFunction ==
    \E function_name \in WeatherNames, arguments \in WeatherArguments :
        LET body == weather_body(arguments)
            d == call_function(FUNCTIONS, function_name, arguments, body)
        IN /\ last' = Handed("call_function", function_name, arguments, d,
                             IF d.invocations = 0 THEN NotCalled ELSE body,
                             IF d.invocations > 0 /\ body.raised
                             THEN "Exception" ELSE "none",
                             NoOut, <<>>)
           /\ UNCHANGED <<fs, calls>>

ExecutorExecute ==
    \E function_name \in WeatherNames, arguments \in WeatherArguments :
        LET body == weather_body(arguments)
            d == executor_execute_function_call(REGISTRY_FUNCTIONS,
                     function_name, arguments, body)
        IN /\ last' = Handed("FunctionExecutor", function_name, arguments, d,
                             IF d.invocations = 0 THEN NotCalled ELSE body,
                             IF d.invocations > 0 /\ body.raised
                             THEN "Exception" ELSE "none",
                             NoOut, <<>>)
           /\ UNCHANGED <<fs, calls>>

\* The chatbot's dispatcher on update_file, and on names it does not know.
ChatbotNames == {"update_file", "nonexistent_function"}

ChatbotExecute(P, C, M) ==
    \E function_name \in ChatbotNames,
       arguments \in {[filename |-> p, content |-> c] : p \in P, c \in C}
                     \cup {[filename |-> p, content |-> c, mode |-> m] :
                             p \in P, c \in C, m \in M}
                     \cup Unbound("update_file") :
        \E r \in {IF function_name \notin AVAILABLE_FUNCTIONS
                   THEN Result("none", "none", fs, <<>>, NoOut)
                   ELSE IF Binds("update_file", arguments)
                   THEN update_file(fs, arguments.filename, arguments.content,
                                    Arg("update_file", arguments, "mode"))
                   ELSE Raised(fs)} :
           LET body == IF r.status = "raised" THEN Raises
                       ELSE Returns(returned("update_file", r))
               d == chatbot_execute_function_call(AVAILABLE_FUNCTIONS,
                        function_name, arguments, body)
           IN /\ WithinBounds(r.fs)
              /\ fs' = r.fs
              /\ last' = Handed("MarkdownChatbot", function_name, arguments,
                                d,
                                IF d.invocations = 0 THEN NotCalled ELSE body,
                                r.exc, r.out, r.trace)
              /\ UNCHANGED calls

Init ==
    /\ fs \in {BaseFS, SiblingFS}
    /\ last = Idle
    /\ calls = NoCalls

\* The caller takes the result; the next call starts from the file system
\* the last one left.
Return ==
    /\ last # Idle
    /\ last' = Idle
    /\ UNCHANGED <<fs, calls>>

\* One call at a time, each from the file system the last one left.
Next ==
    \/ last = Idle /\ ListDirectory(PathInputs)
    \/ last = Idle /\ ReadFile(PathInputs)
    \/ last = Idle /\ CreateFile(PathInputs, ContentInputs)
    \/ last = Idle /\ UpdateFile(PathInputs, ContentInputs, ModeInputs)
    \/ last = Idle /\ DeleteFile(PathInputs)
    \/ last = Idle /\ CreateDirectory(PathInputs)
    \/ last = Idle /\ RenameFile(PathInputs)
    \/ last = Idle /\ MoveFile(PathInputs)
    \/ last = Idle /\ SearchFiles(QueryInputs)
    \/ last = Idle /\ CopyFile(PathInputs)
    \/ last = Idle /\ GetFileInfo(PathInputs)
    \/ last = Idle /\ CreateBackup(PathInputs, Timestamps)
    \/ last = Idle /\ ListRecentFiles({0, 7, 366}, {0, 10, 101}, {"UTC"}, {0})
    \/ Return

Spec == Init /\ [][Next]_vars

\* ------------------------------------------- validate_path on its own
Tokens == { DOTDOT, DOT, <<>>, <<"a">>, <<"a", "p", "p">>,
            <<"d", "o", "c", "s">>, <<"d", "o", "c", "s", "E">> }

\* Every str of at most MaxSegs tokens joined by "/", with and without a
\* leading "/", and None.
ValidateInputs ==
    LET seqs == UNION {[1..k -> Tokens] : k \in 0..MaxSegs}
    IN {JoinWith(ss, SLASH) : ss \in seqs}
       \cup {SLASH \o JoinWith(ss, SLASH) : ss \in seqs}
       \cup {NONE}

ValidatePath ==
    \E s \in ValidateInputs :
        LET v == validate_path(s)
        IN /\ last = Idle
           /\ last' = [Idle EXCEPT !.op = "validate_path",
                                   !.kw = [file_path |-> s],
                                   !.status = IF v.ok THEN "returned"
                                              ELSE "SecurityError",
                                   !.exc = validate_except(s).exc,
                                   !.out = [NoOut EXCEPT !.path = v.path,
                                       !.content = validate_except(s).message]]
           /\ UNCHANGED <<fs, calls>>

SpecValidate == Init /\ [][ValidatePath]_vars

\* ----------------------------------- the text operations on one file
TextNames == { <<"n">>, <<"n", ".", "m", "d">> }
TextContents == { <<>>, <<"x">>, <<"CR">> }

NextText ==
    \/ CreateFile(TextNames, TextContents)
    \/ ReadFile(TextNames)
    \/ UpdateFile(TextNames, TextContents, UpdateModes)
    \/ DeleteFile(TextNames)

SpecText == Init /\ [][NextText]_vars

\* ------------------------- the operations that create or move an entry
\* A plain and a nested name, a directory name, the root, and ".." out of
\* the sandbox.
EntryInputs ==
    { <<"a", ".", "m", "d">>, <<"d">>, <<"d", "/", "a">>, DOT,
      <<".", ".", "/", "s">> }

NextEntries ==
    \/ last = Idle /\ CreateFile(EntryInputs, ContentInputs)
    \/ last = Idle /\ CreateDirectory(EntryInputs)
    \/ last = Idle /\ RenameFile(EntryInputs)
    \/ last = Idle /\ MoveFile(EntryInputs)
    \/ last = Idle /\ CopyFile(EntryInputs)
    \/ Return

SpecEntries == Init /\ [][NextEntries]_vars

\* ------------------------------- the operations that take a single name
\* A name without and with the markdown suffix.
NameInputs == { <<"n">>, <<"n", ".", "m", "d">> }

NextNames ==
    \/ last = Idle /\ ListDirectory(NameInputs)
    \/ last = Idle /\ ReadFile(NameInputs)
    \/ last = Idle /\ CreateFile(NameInputs, ContentInputs)
    \/ last = Idle /\ UpdateFile(NameInputs, ContentInputs, ModeInputs)
    \/ last = Idle /\ DeleteFile(NameInputs)
    \/ last = Idle /\ CreateDirectory(NameInputs)
    \/ last = Idle /\ GetFileInfo(NameInputs)
    \/ last = Idle /\ CreateBackup(NameInputs, Timestamps)
    \/ Return

SpecNames == Init /\ [][NextNames]_vars

\* ----------------------------------------------- searching the sandbox
\* Names at the root and in a directory, in both cases of the letter.
SearchNames == { <<"n">>, <<"A">>, <<"d", "/", "A">> }
\* Content of no, one and two lines, the lines parted by either newline
\* character.
SearchContents == { <<>>, <<"a">>, <<"A", "LF", "b">>, <<"b", "CR", "a">> }
\* A query in the other case, one that spans a line break, the empty one,
\* a carriage return, and None.
SearchQueries == { <<"A">>, <<"a", "LF", "b">>, <<>>, <<"CR">>, NONE }

NextSearch ==
    \/ last = Idle /\ CreateFile(SearchNames, SearchContents)
    \/ last = Idle /\ SearchFiles(SearchQueries)
    \/ Return

SpecSearch == Init /\ [][NextSearch]_vars

\* ---------------------------------- the operations that remove or move
\* The root as ".", a name below it, and the sibling directory reached
\* through the root's own name and "..".
RootInputs ==
    { DOT, <<"d">>,
      <<"d", "o", "c", "s", "/", ".", ".", "/", "d", "o", "c", "s", "E">> }

NextRoot ==
    \/ last = Idle /\ CreateDirectory(RootInputs)
    \/ last = Idle /\ DeleteFile(RootInputs)
    \/ last = Idle /\ RenameFile(RootInputs)
    \/ last = Idle /\ MoveFile(RootInputs)
    \/ Return

SpecRoot == Init /\ [][NextRoot]_vars

\* ------------------- the operations that read and that write one file
\* Two names at the root and one in a directory yet to be made.
FrameNames == { <<"n">>, <<"m">>, <<"d", "/", "m">> }
FrameContents == { <<"x">> }

NextFrame ==
    \/ last = Idle /\ ListDirectory(FrameNames)
    \/ last = Idle /\ ReadFile(FrameNames)
    \/ last = Idle /\ CreateFile(FrameNames, FrameContents)
    \/ last = Idle /\ UpdateFile(FrameNames, FrameContents, UpdateModes)
    \/ last = Idle /\ DeleteFile(FrameNames)
    \/ last = Idle /\ SearchFiles(FrameContents)
    \/ last = Idle /\ GetFileInfo(FrameNames)
    \/ last = Idle /\ ListRecentFiles({7}, {10}, {"UTC"}, {FallBack})
    \/ Return

SpecFrame == Init /\ [][NextFrame]_vars

\* ------------------------------------------------ the counts of a file
InfoNames == { <<"n">> }
\* Every text of the characters that make headers, lines and fences, and
\* some of the characters that make links.
InfoAlphabet == {"#", " ", "LF", "CR", "BT"}
InfoContents ==
    UNION {[1..n -> InfoAlphabet] : n \in 0..MaxContent}
    \cup { <<"[", "]", "(">>, <<"]", "(", "[">>, <<"[", "]">>, <<"]", "(">> }

NextInfo ==
    \/ last = Idle /\ CreateFile(InfoNames, InfoContents)
    \/ last = Idle /\ GetFileInfo(InfoNames)
    \/ Return

SpecInfo == Init /\ [][NextInfo]_vars

\* ----------------------------------------- two callers in create_file
RaceNames == { <<"n">>, <<"n", ".", "m", "d">>, <<"m">> }
RaceContents == { <<"x">>, <<"y">>, <<"z", "z">> }

\* The path a caller's create_file works on.
file_path(c) == validate_path(ensure_markdown_extension(calls[c].filename)).path

At(c, pc) == calls[c].pc = pc
Goto(c, pc) == calls' = [calls EXCEPT ![c].pc = pc]
Done(c, status) == calls' = [calls EXCEPT ![c].pc = "done", ![c].status = status]

\* The call, the validation of the name and the mkdir of the parent.
CreateEnter(c) ==
    /\ At(c, "none")
    /\ \E filename \in RaceNames, content \in RaceContents :
          LET v == validate_path(ensure_markdown_extension(filename))
              mk == mkdir_parents(fs, Parent(v.path))
              call == [pc |-> "exists", filename |-> filename,
                       content |-> content, status |-> "none"]
          IN IF ~v.ok
             THEN /\ calls' = [calls EXCEPT ![c] = [call EXCEPT !.pc = "done",
                                                    !.status = "security_error"]]
                  /\ UNCHANGED fs
             ELSE IF ~mk.ok
             THEN /\ calls' = [calls EXCEPT ![c] = [call EXCEPT !.pc = "done",
                                                    !.status = "error"]]
                  /\ UNCHANGED fs
             ELSE /\ calls' = [calls EXCEPT ![c] = call]
                  /\ fs' = mk.fs
    /\ UNCHANGED last

\* if file_path.exists(): return the error
CreateExists(c) ==
    /\ At(c, "exists")
    /\ IF exists(fs, file_path(c)) THEN Done(c, "error") ELSE Goto(c, "open")
    /\ UNCHANGED <<fs, last>>

\* open(file_path, 'w'): the file is made, or emptied when it is there.
CreateOpen(c) ==
    /\ At(c, "open")
    /\ IF is_dir(fs, file_path(c))
       THEN Done(c, "error") /\ UNCHANGED fs
       ELSE Goto(c, "write") /\ fs' = open_w(fs, file_path(c))
    /\ UNCHANGED last

\* f.write(content) and the end of the with block, then the success dict.
CreateWrite(c) ==
    /\ At(c, "write")
    /\ fs' = flushed(fs, file_path(c), write_newlines(calls[c].content))
    /\ Done(c, "success")
    /\ UNCHANGED last

NextRace ==
    \/ \E c \in Callers : CreateEnter(c)
    \/ \E c \in Callers : CreateExists(c)
    \/ \E c \in Callers : CreateOpen(c)
    \/ \E c \in Callers : CreateWrite(c)

SpecRace == Init /\ [][NextRace]_vars

\* ---------------------------------------- calls through a dispatcher
DispatchNames == { <<"n">> }

NextDispatch ==
    \/ last = Idle /\ CallFunction
    \/ last = Idle /\ ExecutorExecute
    \/ last = Idle /\ ChatbotExecute(DispatchNames, ContentInputs, ModeInputs)
    \/ last = Idle /\ CreateFile(DispatchNames, ContentInputs)
    \/ last = Idle /\ CreateDirectory({ <<"n", ".", "m", "d">> })
    \/ Return

SpecDispatch == Init /\ [][NextDispatch]_vars

\* ------------------------------------------- the recently modified files
RecentNames == { <<"m">>, <<"n">> }
\* days and limit at and beside the ends of their ranges.
DaysInputs == {0, 1, 7, 365, 366}
LimitInputs == {0, 1, 10, 100, 101}
Zones == {"UTC", "local"}
\* Instants more than a day before the latest, on either side of FallBack,
\* and after it.
Instants == {FallBack - DAY - 12, FallBack - 1, FallBack, FallBack + 3}

NextRecent ==
    \/ last = Idle /\ CreateFile(RecentNames, { <<>> })
    \/ last = Idle /\ ListRecentFiles(DaysInputs, LimitInputs, Zones, Instants)
    \/ Return

SpecRecent == Init /\ [][NextRecent]_vars

\* ------------------------------------------- the suffix of the file names
\* The sibling directory holding a file whose name has no suffix; the
\* sandbox itself is empty.
ForeignFS ==
    SiblingFS @@ (Append(Sibling, <<"t">>) :> FileEntry(<<"t">>))

InitSuffix ==
    /\ fs = ForeignFS
    /\ last = Idle
    /\ calls = NoCalls

\* A file name, a directory name, the root, and the sibling directory and
\* its file reached through "..".
SuffixInputs ==
    { <<"a">>, <<"d">>, DOT,
      <<".", ".", "/", "d", "o", "c", "s", "E">>,
      <<".", ".", "/", "d", "o", "c", "s", "E", "/", "t">> }

NextSuffix ==
    \/ last = Idle /\ CreateFile(SuffixInputs, { <<"x">> })
    \/ last = Idle /\ CreateDirectory(SuffixInputs)
    \/ last = Idle /\ RenameFile(SuffixInputs)
    \/ last = Idle /\ MoveFile(SuffixInputs)
    \/ last = Idle /\ CopyFile(SuffixInputs)
    \/ last = Idle /\ CreateBackup(SuffixInputs, Timestamps)
    \/ Return

SpecSuffix == InitSuffix /\ [][NextSuffix]_vars

\* ------------------------------ creating an entry below missing parents
\* A file name, directory names one, two and three levels down, and a name
\* below what create_file makes of the file name.
ParentInputs ==
    { <<"a">>, <<"d">>, <<"d", "/", "e">>, <<"d", "/", "e", "/", "f">>,
      <<"a", ".", "m", "d", "/", "e">> }

\* One call after the other, the caller keeping the last result.
NextParents ==
    \/ CreateDirectory(ParentInputs)
    \/ CreateFile(ParentInputs, ContentInputs)

SpecParents == Init /\ [][NextParents]_vars

\* ================================================================== claims
\* The str validate_path was last called with, and where the root joined
\* with it resolves to.
Given == last.kw.file_path
Target(s) == resolve(JoinPath(DOCUMENTS_ROOT, s))

\* C1: whenever the root joined with the input resolves to neither the root
\* nor a descendant of it, segment by segment, validate_path raises
\* SecurityError and returns no path.
C1_EscapeRaisesSecurityError ==
    (/\ last.op = "validate_path"
     /\ Given # NONE
     /\ ~Inside(Target(Given)))
    => last.status = "SecurityError"

\* C2: whenever the input resolves inside the sandbox subtree, validate_path
\* returns the canonical absolute path, which has the canonical root as its
\* prefix, and raises nothing.
C2_InsideReturnsCanonical ==
    (/\ last.op = "validate_path"
     /\ Given # NONE
     /\ Inside(Target(Given)))
    => /\ last.status = "returned"
       /\ last.out.path = Target(Given)
       /\ startswith(str(last.out.path), str(resolve(DOCUMENTS_ROOT)))
       /\ IsPrefix(DOCUMENTS_ROOT, last.out.path)

\* A relative input with a ".." segment that stays inside the root was
\* accepted and resolved below the root.
C2_Witness ==
    /\ last.op = "validate_path"
    /\ last.status = "returned"
    /\ ~IsAbsolute(Given)
    /\ \E i \in 1..Len(Parts(Given)) : Parts(Given)[i] = DOTDOT
    /\ Len(last.out.path) > Len(DOCUMENTS_ROOT)

\* The part of a file system outside the sandbox subtree.
Outside(F) == [q \in {r \in DOMAIN F : ~Inside(r)} |-> F[q]]

\* The steps of a trace, and those that touch the file system.
Steps(l) == 1..Len(l.trace)
Touches(l, i) == l.trace[i][1] \notin {"validate", "revalidate"}
Reports(l, i) == l.trace[i][1] \in {"read", "stat", "iterdir"}

\* C3: after any sequence of calls nothing outside the sandbox subtree has
\* been created, changed, moved or deleted, and no successful result
\* carries the content or metadata of an entry outside it.
C3_OutsideUntouched ==
    /\ Outside(fs) \in {Outside(BaseFS), Outside(SiblingFS)}
    /\ last.status = "success"
       => \A i \in Steps(last) : Reports(last, i) => Inside(last.trace[i][2])

\* The 13 operations.
Operations ==
    {"list_directory", "read_file", "create_file", "update_file",
     "delete_file", "create_directory", "rename_file", "move_file",
     "search_files", "copy_file", "get_file_info", "create_backup",
     "list_recent_files"}
Statuses == {"success", "error", "security_error"}

PathParams(op) ==
    CASE op = "list_directory" -> {"path"}
      [] op = "create_directory" -> {"dirname"}
      [] op \in {"read_file", "create_file", "update_file", "delete_file",
                 "get_file_info", "create_backup"} -> {"filename"}
      [] op = "rename_file" -> {"old_name", "new_name"}
      [] op \in {"move_file", "copy_file"} -> {"source", "destination"}
      [] OTHER -> {}

\* validate_path refuses the place a str resolves to from directory `base`,
\* with or without the markdown suffix.
Refused(p) == ~startswith(str(p), str(resolve(DOCUMENTS_ROOT)))
Escapes(base, s) ==
    /\ s # NONE
    /\ Refused(resolve(JoinPath(base, s)))
    /\ Refused(resolve(JoinPath(base, ensure_markdown_extension(s))))

\* Some path argument of the last call fails sandbox confinement, as
\* validate_path judges it: resolved from the root, or, for the new name of
\* a rename, from the directory of the entry renamed.
SomeArgumentEscapes ==
    /\ last.op \in Operations
    /\ Binds(last.op, last.kw)
    /\ \E n \in PathParams(last.op) :
          LET s == Arg(last.op, last.kw, n)
          IN IF n = "new_name"
             THEN /\ last.kw.old_name # NONE
                  /\ Inside(Target(last.kw.old_name))
                  /\ Escapes(Parent(Target(last.kw.old_name)), s)
             ELSE Escapes(DOCUMENTS_ROOT, s)

\* C5: whenever a path argument of an operation fails sandbox confinement,
\* the second argument of rename_file, move_file and copy_file included,
\* the result has status security_error, never error.
C5_EscapeIsSecurityError ==
    SomeArgumentEscapes => last.status = "security_error"

\* The first step of the last call that touches the file system, 0 if none.
FirstTouch(l) ==
    IF \E i \in Steps(l) : Touches(l, i)
    THEN CHOOSE i \in Steps(l) :
             Touches(l, i) /\ \A j \in 1..(i - 1) : ~Touches(l, j)
    ELSE 0

\* C6: in every operation every path argument has been through
\* validate_path before the first existence check, read or write; in
\* rename_file, move_file and copy_file the second path is validated before
\* the existence of the first is checked.
C6_ValidateBeforeTouch ==
    (last.op \in Operations /\ Binds(last.op, last.kw) /\ FirstTouch(last) > 0)
    => Cardinality({j \in 1..(FirstTouch(last) - 1) :
                       last.trace[j][1] = "validate"})
           >= Cardinality(PathParams(last.op))

\* C7: an operation that returns security_error has made no file system
\* access, and leaves the tree and every file's content as they were.
C7_SecurityErrorTouchesNothing ==
    [][last'.status = "security_error"
       => /\ fs' = fs
          /\ \A i \in Steps(last') : ~Touches(last', i)]_vars

\* The content the call before the last one was given.
PrevContent == Arg(last.prev.op, last.prev.kw, "content")

\* The last two calls were a successful write of a whole content (create,
\* or update in replace mode) and a successful read_file of the same name.
WroteThenRead ==
    /\ last.op = "read_file"
    /\ last.status = "success"
    /\ last.prev.op \in {"create_file", "update_file"}
    /\ last.prev.status = "success"
    /\ last.prev.op = "update_file"
       => Arg("update_file", last.prev.kw, "mode") = "replace"
    /\ last.prev.kw.filename = last.kw.filename

\* C8: a successful create_file(name, content), or update_file(name,
\* content, "replace"), followed by read_file(name) returns exactly content,
\* whatever characters it holds.
C8_RoundTrip == WroteThenRead => last.out.content = PrevContent

\* C9: update_file in append mode leaves a file that held C holding
\* C + "\n" + X, and in prepend mode X + "\n" + C.
C9_AppendPrepend ==
    [][(/\ last'.op = "update_file"
        /\ last'.status = "success"
        /\ Arg("update_file", last'.kw, "mode") \in {"append", "prepend"})
       => LET p == last'.out.path
              C == fs[p].content
              X == last'.kw.content
          IN fs'[p].content =
                 IF Arg("update_file", last'.kw, "mode") = "append"
                 THEN C \o <<"LF">> \o X
                 ELSE X \o <<"LF">> \o C]_vars

\* The last two calls were delete_file of the same name, the first one a
\* success.
DeletedTwice ==
    /\ last.op = "delete_file"
    /\ last.prev.op = "delete_file"
    /\ last.prev.status = "success"
    /\ Binds("delete_file", last.kw)
    /\ last.kw.filename = last.prev.kw.filename

\* C10: delete_file of an existing file succeeds, reports the size the file
\* had and leaves no file; called again at once it returns the not-found
\* error; neither call raises.
C10_DeleteTwice ==
    /\ [](/\ (last.op = "delete_file" /\ last.status = "success")
             => ~exists(fs, last.out.path)
          /\ DeletedTwice
             => /\ last.status = "error"
                /\ last.exc = "none"
                /\ last.trace[Len(last.trace)][1] = "exists")
    /\ [][(/\ last'.op = "delete_file"
           /\ Binds("delete_file", last'.kw)
           /\ is_file(fs, Target(ensure_markdown_extension(last'.kw.filename))))
          => /\ last'.status = "success"
             /\ last'.out.size =
                    Len(fs[Target(ensure_markdown_extension(
                                      last'.kw.filename))].content)]_vars

\* The second of two deletions of the same file found it gone.
C10_Witness == DeletedTwice /\ last.status = "error"

\* The operations that bring an entry into being under a name.
Creators ==
    {"create_file", "create_directory", "rename_file", "move_file", "copy_file"}

\* The path arguments of a call of one of them pass validate_path, each as
\* the operation hands it over.
Accepted(op, kw) ==
    /\ Binds(op, kw)
    /\ \A n \in PathParams(op) : kw[n] # NONE
    /\ CASE op = "create_file" ->
                validate_path(ensure_markdown_extension(kw.filename)).ok
         [] op = "create_directory" -> validate_path(kw.dirname).ok
         [] op = "rename_file" -> validate_path(kw.old_name).ok
         [] op = "move_file" -> /\ validate_path(kw.source).ok
                                /\ validate_path(kw.destination).ok
         [] op = "copy_file" ->
                /\ validate_path(kw.source).ok
                /\ validate_path(ensure_markdown_extension(kw.destination)).ok
         [] OTHER -> FALSE

\* The name the entry is to have after the call, normalized: with the
\* markdown suffix where the operation appends it, in the directory of the
\* old entry for a rename, and below an existing destination directory for
\* a move.
Destination(F, op, kw) ==
    CASE op = "create_file" -> Target(ensure_markdown_extension(kw.filename))
      [] op = "create_directory" -> Target(kw.dirname)
      [] op = "rename_file" ->
             resolve(JoinPath(Parent(Target(kw.old_name)),
                              IF is_file(F, Target(kw.old_name))
                              THEN ensure_markdown_extension(kw.new_name)
                              ELSE kw.new_name))
      [] op = "move_file" ->
             IF is_dir(F, Target(kw.destination))
             THEN Append(Target(kw.destination), Name(Target(kw.source)))
             ELSE IF is_file(F, Target(kw.source))
                  THEN Target(ensure_markdown_extension(kw.destination))
                  ELSE Target(kw.destination)
      [] op = "copy_file" -> Target(ensure_markdown_extension(kw.destination))

\* C11: create_file, create_directory, rename_file, move_file and copy_file,
\* called with path arguments that pass validation, return status error and
\* change nothing when the normalized target name is already present in the
\* sandbox; and no call of them, whatever its arguments, changes an entry
\* that existed before and still exists after.
C11_NeverOverwrites ==
    [][last'.op \in Creators
       => /\ (/\ Accepted(last'.op, last'.kw)
              /\ Inside(Destination(fs, last'.op, last'.kw))
              /\ Destination(fs, last'.op, last'.kw) \in DOMAIN fs)
             => (last'.status = "error" /\ fs' = fs)
          /\ \A q \in DOMAIN fs \cap DOMAIN fs' : fs'[q] = fs[q]]_vars

\* move_file into an existing directory that already holds a file named
\* like the source was refused.
C11_Witness ==
    /\ last.op = "move_file"
    /\ Accepted(last.op, last.kw)
    /\ last.status = "error"
    /\ last.exc = "none"
    /\ is_file(fs, Target(last.kw.source))
    /\ is_dir(fs, Target(last.kw.destination))
    /\ Append(Target(last.kw.destination), Name(Target(last.kw.source)))
           \in DOMAIN fs

\* The result r is what the last call left behind.
SameAs(r) ==
    /\ fs' = r.fs
    /\ last'.status = r.status
    /\ last'.exc = r.exc
    /\ last'.out = r.out
    /\ last'.trace = r.trace

\* The last call named a file without the markdown suffix.
NoSuffix ==
    /\ "filename" \in DOMAIN last'.kw
    /\ Binds(last'.op, last'.kw)
    /\ last'.kw.filename # NONE
    /\ ~endswith(last'.kw.filename, MD)

\* C12: read_file, create_file, update_file, delete_file, get_file_info and
\* create_backup called with a name N that lacks the ".md" suffix do what
\* the call with N + ".md" does, on the same file; a name that ends in
\* ".md" is left as it is; list_directory and create_directory take their
\* argument without a suffix.
C12_SuffixAppended ==
    [][LET kw == last'.kw
           N == kw.filename \o MD
       IN /\ (NoSuffix /\ last'.op = "read_file") => SameAs(read_file(fs, N))
          /\ (NoSuffix /\ last'.op = "create_file")
             => SameAs(create_file(fs, N, Arg("create_file", kw, "content")))
          /\ (NoSuffix /\ last'.op = "update_file")
             => SameAs(update_file(fs, N, kw.content,
                                   Arg("update_file", kw, "mode")))
          /\ (NoSuffix /\ last'.op = "delete_file") => SameAs(delete_file(fs, N))
          /\ (NoSuffix /\ last'.op = "get_file_info")
             => SameAs(get_file_info(fs, N))
          /\ (NoSuffix /\ last'.op = "create_backup")
             => SameAs(create_backup(fs, N, last'.now))
          /\ (NoSuffix /\ last'.status = "success")
             => Target(N) = IF last'.op = "create_backup"
                             THEN last'.trace[2][2]
                             ELSE last'.out.path
          /\ ("filename" \in DOMAIN kw /\ kw.filename # NONE
                  /\ Binds(last'.op, kw))
             => /\ last'.trace[1] =
                       <<"validate", <<ensure_markdown_extension(kw.filename)>>>>
                /\ endswith(kw.filename, MD)
                   => ensure_markdown_extension(kw.filename) = kw.filename
                /\ ensure_markdown_extension(
                       ensure_markdown_extension(kw.filename))
                       = ensure_markdown_extension(kw.filename)
          /\ (last'.op = "list_directory" /\ Binds(last'.op, kw))
             => /\ last'.trace[1] =
                       <<"validate", <<Arg("list_directory", kw, "path")>>>>
                /\ last'.status = "success"
                   => last'.out.path = Target(Arg("list_directory", kw, "path"))
          /\ (last'.op = "create_directory" /\ Binds(last'.op, kw))
             => /\ last'.trace[1] = <<"validate", <<kw.dirname>>>>
                /\ last'.status = "success"
                   => /\ last'.out.path = Target(kw.dirname)
                      /\ is_dir(fs', Target(kw.dirname))]_vars

\* A file was read under its name without the suffix.
C12_Witness ==
    /\ last.op = "read_file"
    /\ Binds(last.op, last.kw)
    /\ last.kw.filename = <<"n">>
    /\ last.status = "success"
    /\ last.out.path = Target(<<"n", ".", "m", "d">>)

\* The entry at src, with all below it, is at dst after the step, its
\* content unchanged; src is gone; every other entry is as it was.
Relocated(src, dst) ==
    LET under == {q \in DOMAIN fs : IsPrefix(src, q)}
        to(q) == dst \o SubSeq(q, Len(src) + 1, Len(q))
    IN /\ DOMAIN fs' = (DOMAIN fs \ under) \cup {to(q) : q \in under}
       /\ \A q \in under : q \notin DOMAIN fs' /\ fs'[to(q)] = fs[q]
       /\ \A q \in DOMAIN fs \ under : fs'[q] = fs[q]

\* The last call was move_file of an existing entry of the sandbox to an
\* existing directory of the sandbox that has no child named like it.
MovedIntoDirectory ==
    /\ last'.op = "move_file"
    /\ Accepted(last'.op, last'.kw)
    /\ Inside(Target(last'.kw.source))
    /\ Target(last'.kw.source) \in DOMAIN fs
    /\ Inside(Target(last'.kw.destination))
    /\ is_dir(fs, Target(last'.kw.destination))
    /\ Append(Target(last'.kw.destination), Name(Target(last'.kw.source)))
           \notin DOMAIN fs

\* C13 as stated: move_file of an existing source to an existing directory D
\* without a child named like the source succeeds and leaves the entry at
\* D/<basename>, the source gone and nothing else changed.
C13_MoveIntoDirectory ==
    [][MovedIntoDirectory
       => /\ last'.status = "success"
          /\ Relocated(Target(last'.kw.source),
                       Append(Target(last'.kw.destination),
                              Name(Target(last'.kw.source))))]_vars

\* C13, amended: the same when D is neither the source nor below it; a
\* source that is D or holds D is refused with status error and nothing
\* changes.
C13_MoveIntoOtherDirectory ==
    [][MovedIntoDirectory
       => IF IsPrefix(Target(last'.kw.source), Target(last'.kw.destination))
          THEN last'.status = "error" /\ fs' = fs
          ELSE /\ last'.status = "success"
               /\ Relocated(Target(last'.kw.source),
                            Append(Target(last'.kw.destination),
                                   Name(Target(last'.kw.source))))]_vars

\* A file was moved into a directory below the root.
C13_Witness ==
    /\ last.op = "move_file"
    /\ Accepted(last.op, last.kw)
    /\ last.status = "success"
    /\ Target(last.kw.destination) # DOCUMENTS_ROOT
    /\ is_dir(fs, Target(last.kw.destination))
    /\ last.out.path = Append(Target(last.kw.destination),
                              Name(Target(last.kw.source)))
    /\ is_file(fs, last.out.path)
    /\ Target(last.kw.source) \notin DOMAIN fs

\* C14: a successful rename_file leaves the entry in the directory it was
\* in, under the new name (with ".md" appended when it is a file and the
\* new name lacks it); the old path is gone and the content unchanged,
\* whatever the new name contains.
C14_RenameInPlace ==
    [][(last'.op = "rename_file" /\ last'.status = "success")
       => LET old == Target(last'.kw.old_name)
              name == IF is_file(fs, old)
                      THEN ensure_markdown_extension(last'.kw.new_name)
                      ELSE last'.kw.new_name
          IN Relocated(old, Append(Parent(old), name))]_vars

\* C15: a successful copy_file leaves the source and its content as they
\* were and every other entry too, and adds exactly one file, at the
\* destination with the markdown suffix, holding the source's content (the
\* only other additions are the directories above it); copy_file with a
\* source that passes validation and is missing or a directory returns
\* status error and changes nothing.
C15_CopyAddsOneFile ==
    [][(last'.op = "copy_file" /\ Binds(last'.op, last'.kw))
       => LET src == Target(last'.kw.source)
              dst == Target(ensure_markdown_extension(last'.kw.destination))
              added == DOMAIN fs' \ DOMAIN fs
          IN /\ last'.status = "success"
                => /\ is_file(fs, src)
                   /\ \A q \in DOMAIN fs : q \in DOMAIN fs' /\ fs'[q] = fs[q]
                   /\ {q \in added : fs'[q].kind = "file"} = {dst}
                   /\ fs'[dst].content = fs[src].content
                   /\ \A q \in added \ {dst} : IsPrefix(q, dst)
             /\ (validate_path(last'.kw.source).ok /\ ~is_file(fs, src))
                => (last'.status = "error" /\ fs' = fs)]_vars

\* A file with content was copied under another name.
C15_Witness ==
    /\ last.op = "copy_file"
    /\ last.status = "success"
    /\ last.out.path # Target(last.kw.source)
    /\ fs[last.out.path].content = <<"x">>
    /\ fs[Target(last.kw.source)].content = <<"x">>

\* The last call was update_file with a name that passes validation.
UpdateCalled ==
    /\ last'.op = "update_file"
    /\ Binds(last'.op, last'.kw)
    /\ last'.kw.filename # NONE
    /\ validate_path(ensure_markdown_extension(last'.kw.filename)).ok

\* C16: update_file returns status error and leaves the file system as it
\* was when no file has the name (it creates none) and when mode is not
\* replace, append or prepend (the file keeps its content).
C16_UpdateRefused ==
    [][(/\ UpdateCalled
        /\ \/ ~is_file(fs, Target(ensure_markdown_extension(last'.kw.filename)))
           \/ Arg("update_file", last'.kw, "mode")
                  \notin {"replace", "append", "prepend"})
       => (last'.status = "error" /\ fs' = fs)]_vars

\* An existing file was left alone by an update with an unknown mode.
C16_Witness ==
    /\ last.op = "update_file"
    /\ Binds(last.op, last.kw)
    /\ last.kw.filename # NONE
    /\ Arg("update_file", last.kw, "mode") = "bogus"
    /\ is_file(fs, Target(ensure_markdown_extension(last.kw.filename)))
    /\ last.status = "error"

\* C17: a successful create_backup leaves, beside the original, a file
\* named {stem}_backup_{timestamp}.md that holds the original's content,
\* and changes no entry that existed before the call: neither the
\* original, nor an earlier backup, nor a file that already had that name.
C17_BackupIsNew ==
    [][(last'.op = "create_backup" /\ last'.status = "success")
       => LET p == Target(ensure_markdown_extension(last'.kw.filename))
              b == Append(Parent(p),
                          Stem(Name(p)) \o BACKUP \o last'.now \o MD)
          IN /\ is_file(fs', b)
             /\ fs'[b].content = fs[p].content
             /\ \A q \in DOMAIN fs : q \in DOMAIN fs' /\ fs'[q] = fs[q]]_vars

\* The markdown files of the sandbox, at any depth.
Markdown == {q \in DOMAIN fs : /\ Inside(q) /\ is_file(fs, q)
                               /\ endswith(Name(q), MD)}

\* The file a result names.
Named(f) == CHOOSE q \in Markdown : RelativeStr(q) = f

\* The last call was search_files with a str and a known search_type.
Searched(type) ==
    /\ last.op = "search_files"
    /\ Binds(last.op, last.kw)
    /\ last.kw.query # NONE
    /\ Arg("search_files", last.kw, "search_type") = type
    /\ last.status = "success"

\* C18: search_files scans every markdown file of the sandbox; by filename
\* it finds exactly the files whose name holds the query, case ignored; by
\* content exactly the files whose content holds it, case ignored, each
\* with between 1 and 5 line numbers, counted from 1, in file order, of
\* lines that hold the query.
C18_SearchMatches ==
    /\ Searched("filename")
       => /\ last.out.size = Cardinality(Markdown)
          /\ last.out.names =
                 {RelativeStr(q) : q \in
                     {r \in Markdown :
                         Contains(lower(Name(r)), lower(last.kw.query))}}
    /\ Searched("content")
       => /\ last.out.size = Cardinality(Markdown)
          /\ last.out.names =
                 {RelativeStr(q) : q \in
                     {r \in Markdown :
                         Contains(lower(fs[r].content), lower(last.kw.query))}}
          /\ \A f \in last.out.names :
                LET numbers == last.out.lines[f]
                    lines == splitlines(read_text(fs, Named(f)))
                IN /\ 1 <= Len(numbers) /\ Len(numbers) <= 5
                   /\ \A i \in 1..Len(numbers) :
                         /\ numbers[i] \in 1..Len(lines)
                         /\ Contains(lower(lines[numbers[i]]),
                                     lower(last.kw.query))
                         /\ i > 1 => numbers[i - 1] < numbers[i]

\* The last call was list_recent_files, and it bound its arguments.
Listed ==
    /\ last.op = "list_recent_files"
    /\ Binds(last.op, last.kw)

days_back == Arg("list_recent_files", last.kw, "days")
limit_given == Arg("list_recent_files", last.kw, "limit")

\* C19: list_recent_files answers status error, raising nothing and
\* scanning nothing, whenever days is outside 1..365 or limit is outside
\* 1..100, and status success whenever both are in range.
C19_RangeChecked ==
    Listed
    => /\ last.exc = "none"
       /\ (days_back \notin 1..365 \/ limit_given \notin 1..100)
          => /\ last.status = "error"
             /\ last.trace = <<>>
             /\ last.out = NoOut
       /\ (days_back \in 1..365 /\ limit_given \in 1..100)
          => last.status = "success"

\* list_recent_files(days=0) with some file to find was refused.
C19_Witness ==
    /\ Listed
    /\ days_back = 0
    /\ Markdown # {}
    /\ last.status = "error"

\* The markdown files last modified no more than days_back days before the
\* scan seen.
Window(seen) ==
    {q \in Markdown : seen.now - seen.mtime[q] <= days_back * DAY}

\* C20: a successful list_recent_files(days, limit) lists only markdown
\* files modified within the last days days, each once, a later
\* modification never below an earlier one, at most limit of them, and
\* every file of the window that it leaves out was modified no later than
\* each file it lists.
C20_MostRecentFirst ==
    (Listed /\ last.status = "success")
    => LET seen == last.now[1]
           files == last.out.files
           listed == {Named(files[i]) : i \in 1..Len(files)}
           few == IF Cardinality(Window(seen)) < limit_given
                  THEN Cardinality(Window(seen)) ELSE limit_given
       IN /\ \A i \in 1..Len(files) :
                \E q \in Window(seen) : RelativeStr(q) = files[i]
          /\ \A i, j \in 1..Len(files) : i # j => files[i] # files[j]
          /\ Len(files) = few
          /\ \A i, j \in 1..Len(files) :
                i < j => seen.mtime[Named(files[i])] >= seen.mtime[Named(files[j])]
          /\ \A q \in Window(seen) \ listed :
                \A r \in listed : seen.mtime[r] >= seen.mtime[q]

\* get_file_info answered for an existing file.
Informed ==
    /\ last.op = "get_file_info"
    /\ Binds(last.op, last.kw)
    /\ last.status = "success"

\* The lines of a file's content, parted at CR LF, CR or LF.
FileLines(content) == splitlines(read_newlines(content))

\* C21: for an existing file get_file_info reports as headers the number
\* of lines that start with "#", as links the number of lines that hold
\* both "[" and "](", as code blocks half the number of triple backticks,
\* rounded down, and as lines and characters the number of lines and of
\* characters of the file's content.
C21_InfoCounts ==
    Informed
    => LET content == fs[last.out.path].content
           info == last.out.info
       IN /\ info.headers =
                 Cardinality({i \in 1..Len(FileLines(content)) :
                                 startswith(FileLines(content)[i], <<"#">>)})
          /\ info.links =
                 Cardinality({i \in 1..Len(FileLines(content)) :
                                 /\ Contains(FileLines(content)[i], <<"[">>)
                                 /\ Contains(FileLines(content)[i], <<"]", "(">>)})
          /\ info.code_blocks = count(content, <<"BT", "BT", "BT">>) \div 2
          /\ info.lines = Len(FileLines(content))
          /\ info.characters = Len(content)

\* C22: whatever the calls and their arguments, the sandbox root stays
\* where it is: no rename_file, move_file or delete_file deletes, renames
\* or moves the root directory.
C22_RootStays == is_dir(fs, DOCUMENTS_ROOT)

\* The files and directories of the sandbox, each with its content.
Sandbox(F) == [q \in {r \in DOMAIN F : Inside(r)} |-> F[q]]

\* C23: a call that returns status error has applied no part of its
\* effect: the files and directories of the sandbox and the content of
\* every file are what they were before the call.
C23_ErrorChangesNothing ==
    [][(last'.op \in Operations /\ last'.status = "error")
       => Sandbox(fs') = Sandbox(fs)]_vars

\* The operations that only read.
Readers ==
    {"list_directory", "read_file", "search_files", "get_file_info",
     "list_recent_files"}

\* The operations that write one file.
Writers == {"create_file", "update_file", "delete_file"}

\* C24: a successful list_directory, read_file, search_files,
\* get_file_info or list_recent_files leaves the file system as it was; a
\* successful create_file, update_file or delete_file leaves every entry
\* other than its target file as it was, but for the missing parent
\* directories of the target that create_file adds.
C24_SuccessFrame ==
    [][(last'.status = "success" /\ last'.op \in Readers \cup Writers)
       => IF last'.op \in Readers THEN fs' = fs
          ELSE LET target == Target(ensure_markdown_extension(last'.kw.filename))
               IN /\ \A q \in DOMAIN fs \ {target} :
                        q \in DOMAIN fs' /\ fs'[q] = fs[q]
                  /\ \A q \in DOMAIN fs' \ (DOMAIN fs \cup {target}) :
                        /\ last'.op = "create_file"
                        /\ fs'[q] = DirEntry
                        /\ IsPrefix(q, target)]_vars

\* delete_file took one of two files of a directory.
C24_Witness ==
    /\ last.op = "delete_file"
    /\ last.status = "success"
    /\ \E q \in DOMAIN fs : /\ is_file(fs, q)
                            /\ Inside(q)
                            /\ Parent(q) = Parent(last.out.path)

\* Both callers of create_file are back with status success, for one file.
BothWon ==
    /\ \A c \in Callers : calls[c].pc = "done" /\ calls[c].status = "success"
    /\ \A c, d \in Callers : file_path(c) = file_path(d)

\* C25: two create_file calls for one file that does not exist yet, run
\* at the same time, can both return status success (C25_Witness); when
\* they do, the file holds the text of one creator only: it begins with
\* the content of one of them and is no longer than the longer content.
C25_BothWinOneStays ==
    BothWon
    => LET p == file_path("first")
       IN /\ is_file(fs, p)
          /\ \E c \in Callers : startswith(fs[p].content, calls[c].content)
          /\ \E c \in Callers : Len(fs[p].content) <= Len(calls[c].content)

\* Both creators won with different contents, and the file holds the
\* content of exactly one of them.
C25_Witness ==
    /\ BothWon
    /\ calls["first"].content # calls["second"].content
    /\ \E c \in Callers : fs[file_path(c)].content = calls[c].content

\* C26: validate_path ends in one of two ways for every input: it
\* returns the resolved path, or it raises SecurityError and no other
\* exception, with a message that holds the input as str() prints it.
C26_ReturnsOrSecurityError ==
    last.op = "validate_path"
    => \/ /\ last.exc = "none"
          /\ last.status = "returned"
          /\ last.out.path = Target(Given)
       \/ /\ last.exc = "SecurityError"
          /\ last.status = "SecurityError"
          /\ Contains(last.out.content,
                      IF Given = NONE THEN <<"N", "o", "n", "e">> ELSE Given)

\* validate_path(None): the TypeError of the join came out as
\* SecurityError.
C26_Witness ==
    /\ last.op = "validate_path"
    /\ Given = NONE
    /\ last.exc = "SecurityError"

\* An exception other than SecurityError ended the body of the last
\* operation after it had gone to the file system.
FailedOnDisk ==
    /\ last.op \in Operations
    /\ last.exc = "Exception"
    /\ last.status # "raised"
    /\ \E i \in Steps(last) : Touches(last, i)

\* C27: when an unexpected exception ends an operation at the file
\* system, the result the caller gets has status error, holds the
\* message of the exception, and names the operation and the arguments
\* of the call.
C27_FailureIsTagged ==
    FailedOnDisk
    => /\ last.reply.status = "error"
       /\ Contains(last.reply.error, <<"str(e)">>)
       /\ "function_name" \in last.reply.keys
       /\ last.reply.function_name = last.op
       /\ "arguments" \in last.reply.keys
       /\ last.reply.arguments = last.kw

Dispatchers == {"call_function", "FunctionExecutor", "MarkdownChatbot"}

\* The registry the dispatcher of the last call looks names up in.
Registry ==
    CASE last.via = "call_function" -> FUNCTIONS
      [] last.via = "FunctionExecutor" -> REGISTRY_FUNCTIONS
      [] last.via = "MarkdownChatbot" -> AVAILABLE_FUNCTIONS

\* C28: call_function and the two execute_function_call methods never
\* raise; for a name that is not registered they return a dict with status
\* error and call nothing; for arguments the function does not accept they
\* return a dict that reports an error; and when the function returns,
\* they return its dict as it is, having called the function once.
C28_DispatchNeverRaises ==
    last.via \in Dispatchers
    => /\ last.status # "raised"
       /\ last.reply.keys # {}
       /\ last.op \notin Registry
          => /\ last.reply.status = "error"
             /\ last.invocations = 0
       /\ (last.op \in Registry /\ ~Binds(last.op, last.kw))
          => /\ "error" \in last.reply.keys
             /\ last.reply.status \in {"error", "execution_error"}
       /\ (last.op \in Registry /\ last.inner # NoReply)
          => /\ last.reply = last.inner
             /\ last.invocations = 1

\* call_function met arguments that get_weather does not accept.
C28_Witness ==
    /\ last.via = "call_function"
    /\ last.op = "get_weather"
    /\ ~Binds(last.op, last.kw)
    /\ last.reply.status = "error"

\* C29: starting from a sandbox in which every regular file has a name
\* ending in ".md", after any sequence of operations every regular file
\* in the sandbox has a name ending in ".md".
C29_MarkdownSuffix ==
    \A q \in DOMAIN fs :
        (Inside(q) /\ is_file(fs, q)) => endswith(Name(q), MD)

\* The entries of F that a path p has above it, and p itself.
Absent(F, p) == Prefixes(p) \ DOMAIN F
FileAbove(F, p) == \E q \in Prefixes(p) : is_file(F, q)

\* The next call is create_directory with a name that passes validation
\* and is not present, the one after a successful create_directory with
\* the same name, and create_file of a str with a name that passes
\* validation and is not present.
DirectoryWanted ==
    /\ last'.op = "create_directory"
    /\ Accepted(last'.op, last'.kw)
    /\ Target(last'.kw.dirname) \notin DOMAIN fs

DirectoryAgain ==
    /\ last'.op = "create_directory"
    /\ last.op = "create_directory"
    /\ last.status = "success"
    /\ last'.kw = last.kw

FileWanted ==
    /\ last'.op = "create_file"
    /\ Accepted(last'.op, last'.kw)
    /\ Arg("create_file", last'.kw, "content") # NONE
    /\ Target(ensure_markdown_extension(last'.kw.filename)) \notin DOMAIN fs

\* The call made the directories that p lacked, p included, and nothing
\* else, and returned success.
MadeDirectories(p) ==
    /\ last'.status = "success"
    /\ DOMAIN fs' = DOMAIN fs \cup Prefixes(p)
    /\ \A q \in Absent(fs, p) : fs'[q] = DirEntry
    /\ \A q \in DOMAIN fs : fs'[q] = fs[q]

\* The call made the file p and the directories that p lacked above it,
\* and returned success.
MadeFile(p) ==
    /\ last'.status = "success"
    /\ DOMAIN fs' = DOMAIN fs \cup Prefixes(p)
    /\ fs'[p].kind = "file"
    /\ \A q \in Absent(fs, p) \ {p} : fs'[q] = DirEntry
    /\ \A q \in DOMAIN fs : fs'[q] = fs[q]

\* C30 as it is stated: create_directory with a name that passes
\* validation and is not present creates the directory and every missing
\* directory above it and returns success; called again at once with the
\* same name it returns status error and changes nothing; create_file of a
\* str under a name not present creates the file and every missing
\* directory above it.
C30_AsStated ==
    [][/\ DirectoryWanted => MadeDirectories(Target(last'.kw.dirname))
       /\ DirectoryAgain => (last'.status = "error" /\ fs' = fs)
       /\ FileWanted
          => MadeFile(Target(ensure_markdown_extension(last'.kw.filename)))]_vars

\* C30: the same for names that have no regular file above them; with a
\* regular file above the name both operations return status error and
\* change nothing.
C30_CreatesParents ==
    [][/\ (DirectoryWanted /\ ~FileAbove(fs, Target(last'.kw.dirname)))
          => MadeDirectories(Target(last'.kw.dirname))
       /\ (\/ DirectoryWanted /\ FileAbove(fs, Target(last'.kw.dirname))
           \/ /\ FileWanted
              /\ FileAbove(fs, Target(ensure_markdown_extension(
                                          last'.kw.filename))))
          => (last'.status = "error" /\ fs' = fs)
       /\ DirectoryAgain => (last'.status = "error" /\ fs' = fs)
       /\ (/\ FileWanted
           /\ ~FileAbove(fs, Target(ensure_markdown_extension(
                                        last'.kw.filename))))
          => MadeFile(Target(ensure_markdown_extension(last'.kw.filename)))]_vars

\* create_directory of a name two levels down succeeded and was called
\* again with the same name.
C30_Witness ==
    /\ last.op = "create_directory"
    /\ last.prev.op = "create_directory"
    /\ last.prev.status = "success"
    /\ last.kw = last.prev.kw
    /\ last.status = "error"
    /\ Len(Target(last.kw.dirname)) = Len(DOCUMENTS_ROOT) + 2

====
